---- MODULE Spec2Model ----
(***************************************************************************)
(* The 2D polygon boolean engine of utils/geometry (booleanSubtract,       *)
(* booleanUnion and the helpers they call) together with the diagnostic    *)
(* logger of utils/debug.                                                  *)
(*                                                                         *)
(* Numbers.  The engine works on doubles.  Here a coordinate is an integer *)
(* number of units of 0.005, so 1.0 is 200 units, the sanitizer tolerance  *)
(* 0.01 is 2 units and the stitcher tolerance 5.0 is 1000 units.  A        *)
(* comparison distance(p,q) < t is made on the squares, which is the same  *)
(* comparison.  Quotients the code compares (the ray-cast abscissa, the    *)
(* intersection parameters ua and ub) are compared by cross-multiplying,   *)
(* which is exact; a quotient the code stores as a coordinate (an          *)
(* intersection point, the normal of a wall) is rounded to the nearest     *)
(* unit.  A midpoint is kept as the sum of its two end points (twice the   *)
(* midpoint) so that it stays exact.                                       *)
(***************************************************************************)
EXTENDS Integers, Sequences, FiniteSets, TLC

VARIABLES
    pc,       \* "idle", or the operation whose body is about to run
    args,     \* the entities handed to the operation in progress / last run
    result,   \* what the last operation returned
    steps,    \* the stages the last operation went through
    logs,     \* DebugLogger.logs
    calls,    \* number of operations started so far
    owner,    \* which array object each array of the last result is
    history,  \* the calls made so far, each with its arguments and result
    frame     \* the local variables of a stitchSegments call in progress

vars == <<pc, args, result, steps, logs, calls, owner, history, frame>>

----------------------------------------------------------------------------
(* Arithmetic helpers *)

Abs(n) == IF n < 0 THEN -n ELSE n

Sgn(n) == IF n < 0 THEN -1 ELSE IF n > 0 THEN 1 ELSE 0

Min2(a, b) == IF a < b THEN a ELSE b

Max2(a, b) == IF a > b THEN a ELSE b

\* a / b rounded to the nearest integer (b # 0), halves away from zero
RoundDiv(a, b) ==
    LET n == Abs(a)
        d == Abs(b)
        q == (2 * n + d) \div (2 * d)
    IN  IF Sgn(a) * Sgn(b) < 0 THEN -q ELSE q

RECURSIVE SqrtSearch(_, _, _)
SqrtSearch(n, lo, hi) ==
    IF lo >= hi THEN lo
    ELSE LET m == (lo + hi + 1) \div 2
         IN  IF m * m <= n THEN SqrtSearch(n, m, hi) ELSE SqrtSearch(n, lo, m - 1)

\* floor of the square root of n, 0 <= n < 2^30
FloorSqrt(n) == SqrtSearch(n, 0, 32767)

SetMin(S) == CHOOSE m \in S : \A o \in S : m <= o

SetMax(S) == CHOOSE m \in S : \A o \in S : m >= o

Reverse(s) == [i \in 1..Len(s) |-> s[Len(s) + 1 - i]]

RECURSIVE FilterRange(_, _, _, _)
\* the elements of s at the indices lo..hi that are in keep, in order
FilterRange(s, keep, lo, hi) ==
    IF lo > hi THEN <<>>
    ELSE IF lo = hi THEN (IF lo \in keep THEN <<s[lo]>> ELSE <<>>)
    ELSE FilterRange(s, keep, lo, (lo + hi) \div 2)
             \o FilterRange(s, keep, (lo + hi) \div 2 + 1, hi)

\* the subsequence of s at the positions in keep, from position i on, in order
FilterIdx(s, keep, i) == FilterRange(s, keep, i, Len(s))

----------------------------------------------------------------------------
(* Points *)

Pt(px, py) == [x |-> px, y |-> py]

\* an element of a point array that is not a point object (null/undefined in
\* a loaded project file); reading .x or .y of it raises a TypeError
Undefined == [undefined |-> TRUE]

IsPoint(p) == p # Undefined

\* 0.0001 : two grid points are closer than that iff they coincide
EPSILON_SQ == 1

\* 0.01 = 2 units
CLEAN_TOL_SQ == 4

\* 5.0 = 1000 units
STITCH_TOL_SQ == 1000000

\* distance(p1, p2) squared
distanceSq(p1, p2) ==
    (p2.x - p1.x) * (p2.x - p1.x) + (p2.y - p1.y) * (p2.y - p1.y)

\* distance(p1, p2) < tolerance, tolSq the square of the tolerance.  The two
\* coordinate tests are implied by the third and keep the squares small.
arePointsEqual(p1, p2, tolSq) ==
    /\ Abs(p2.x - p1.x) * Abs(p2.x - p1.x) < tolSq
    /\ Abs(p2.y - p1.y) * Abs(p2.y - p1.y) < tolSq
    /\ distanceSq(p1, p2) < tolSq

----------------------------------------------------------------------------
(* Entities.  Every entity record carries the fields of its own kind only; *)
(* holes is the optional hole list of a PolygonEntity, <<>> when absent    *)
(* (the code reads it as `holes || []`).                                   *)

Rectangle(px, py, w, h) ==
    [type |-> "rectangle", start |-> Pt(px, py), width |-> w, height |-> h]

Line(ax, ay, bx, by) ==
    [type |-> "line", start |-> Pt(ax, ay), end |-> Pt(bx, by)]

Polygon(pts, hs) == [type |-> "polygon", points |-> pts, holes |-> hs]

\* (subject as PolygonEntity).holes || []
holesOf(ent) == IF ent.type = "polygon" THEN ent.holes ELSE <<>>

getBounds(entity) ==
    IF entity.type = "rectangle" THEN
        [x1 |-> entity.start.x, y1 |-> entity.start.y,
         x2 |-> entity.start.x + entity.width,
         y2 |-> entity.start.y + entity.height]
    ELSE IF entity.type = "line" THEN
        [x1 |-> Min2(entity.start.x, entity.end.x),
         y1 |-> Min2(entity.start.y, entity.end.y),
         x2 |-> Max2(entity.start.x, entity.end.x),
         y2 |-> Max2(entity.start.y, entity.end.y)]
    ELSE IF entity.type = "polygon" THEN
        LET xs == {entity.points[i].x : i \in 1..Len(entity.points)}
            ys == {entity.points[i].y : i \in 1..Len(entity.points)}
        IN  [x1 |-> SetMin(xs), y1 |-> SetMin(ys),
             x2 |-> SetMax(xs), y2 |-> SetMax(ys)]
    ELSE [x1 |-> 0, y1 |-> 0, x2 |-> 0, y2 |-> 0]

doRectsIntersect(r1, r2) ==
    ~(r2.x1 > r1.x2 \/ r2.x2 < r1.x1 \/ r2.y1 > r1.y2 \/ r2.y2 < r1.y1)

\* halfThickness = 2.0, in units
HALF_THICKNESS == 400

\* the four corners of a line's quad, nx and ny the offsets of its normal
lineQuad(ent, nx, ny) ==
    << Pt(ent.start.x + nx, ent.start.y + ny),
       Pt(ent.end.x + nx, ent.end.y + ny),
       Pt(ent.end.x - nx, ent.end.y - ny),
       Pt(ent.start.x - nx, ent.start.y - ny) >>

\* distance(start, end) rounded to the nearest unit, fl the floor of the root
lineLength(lenSq, fl) == IF lenSq - fl * fl > fl THEN fl + 1 ELSE fl

\* nx = -dy / len * halfThickness, ny = dx / len * halfThickness
lineNormal(ent, dx, dy, len) ==
    lineQuad(ent, RoundDiv((-dy) * HALF_THICKNESS, len),
                  RoundDiv(dx * HALF_THICKNESS, len))

\* the line branch, dx and dy the differences of the end points
lineToPoints(ent, dx, dy) ==
    IF dx * dx + dy * dy = 0 THEN <<>>
    ELSE lineNormal(ent, dx, dy,
                    lineLength(dx * dx + dy * dy, FloorSqrt(dx * dx + dy * dy)))

convertToPoints(ent) ==
    IF ent.type = "polygon" THEN ent.points
    ELSE IF ent.type = "rectangle" THEN
        << Pt(ent.start.x, ent.start.y),
           Pt(ent.start.x + ent.width, ent.start.y),
           Pt(ent.start.x + ent.width, ent.start.y + ent.height),
           Pt(ent.start.x, ent.start.y + ent.height) >>
    ELSE IF ent.type = "line" THEN
        lineToPoints(ent, ent.end.x - ent.start.x, ent.end.y - ent.start.y)
    ELSE <<>>

----------------------------------------------------------------------------
(* Intersection of two edges *)

\* round(a * b / d) for 0 <= a <= d, b >= 0, 0 < d < 2^30, computed bit by
\* bit of b so that no intermediate value leaves 32 bits; the result is the
\* pair <<quotient, remainder>> of a * b by d
\* <<q, r>> brought back to 0 <= r < d
MulDivCarry(q, r, d) == IF r >= d THEN <<q + 1, r - d>> ELSE <<q, r>>

\* the pair for a * b from the pair h for a * (b \div 2)
MulDivDouble(a, b, d, h) ==
    MulDivCarry(2 * h[1] + (IF 2 * h[2] >= d THEN 1 ELSE 0),
                (IF 2 * h[2] >= d THEN 2 * h[2] - d ELSE 2 * h[2])
                    + (IF b % 2 = 1 THEN a ELSE 0),
                d)

RECURSIVE MulDiv(_, _, _)
MulDiv(a, b, d) ==
    IF b = 0 THEN <<0, 0>> ELSE MulDivDouble(a, b, d, MulDiv(a, b \div 2, d))

\* the quotient of the pair md rounded to the nearest integer
MulDivRound(md, d) == IF 2 * md[2] >= d THEN md[1] + 1 ELSE md[1]

\* p + (n / d) * delta rounded to the nearest unit, 0 < n < d
Along(p, n, d, delta) ==
    IF delta < 0 THEN p - MulDivRound(MulDiv(n, -delta, d), d)
    ELSE p + MulDivRound(MulDiv(n, delta, d), d)

\* a test that lets the ends of the edge in
ParamInsideClosed(n, d) == n >= 0 /\ d - n >= 0

\* n / d strictly inside (EPSILON, 1 - EPSILON), d > 0
ParamInside(n, d) == n > d \div 10000 /\ d - n > d \div 10000

NoPoint == [none |-> TRUE]

\* the point for the parameters ua / d along p1-p2 and ub / d along p3-p4
intersectionAt(p1, p2, ua, ub, d) ==
    IF ParamInside(ua, d) /\ ParamInside(ub, d)
    THEN Pt(Along(p1.x, ua, d, p2.x - p1.x), Along(p1.y, ua, d, p2.y - p1.y))
    ELSE NoPoint

\* na and nb the numerators of ua and ub over denom
intersectionOver(p1, p2, denom, na, nb) ==
    IF denom = 0 THEN NoPoint
    ELSE intersectionAt(p1, p2, IF denom < 0 THEN -na ELSE na,
                        IF denom < 0 THEN -nb ELSE nb, Abs(denom))

getIntersection(p1, p2, p3, p4) ==
    intersectionOver(p1, p2,
        (p4.y - p3.y) * (p2.x - p1.x) - (p4.x - p3.x) * (p2.y - p1.y),
        (p4.x - p3.x) * (p1.y - p3.y) - (p4.y - p3.y) * (p1.x - p3.x),
        (p2.x - p1.x) * (p1.y - p3.y) - (p2.y - p1.y) * (p1.x - p3.x))

----------------------------------------------------------------------------
(* Classifier *)

\* isPointInPoly for the point (px / den, py / den): den = 1 for a vertex,
\* den = 2 for a midpoint handed over as the sum of the edge's end points
isPointInPolyDen(px, py, den, poly) ==
    LET n == Len(poly)
        Crosses(i) ==
            LET j  == IF i = 1 THEN n ELSE i - 1
                xi == poly[i].x
                yi == poly[i].y
                xj == poly[j].x
                yj == poly[j].y
            IN  /\ (den * yi > py) # (den * yj > py)
                /\ IF yj - yi > 0
                   THEN (px - den * xi) * (yj - yi) < (xj - xi) * (py - den * yi)
                   ELSE (px - den * xi) * (yj - yi) > (xj - xi) * (py - den * yi)
    IN  Cardinality({i \in 1..n : Crosses(i)}) % 2 = 1

isPointInPoly(p, poly) == isPointInPolyDen(p.x, p.y, 1, poly)

\* isPointInPoly(mid, poly) for mid = {(p1.x+p2.x)/2, (p1.y+p2.y)/2}
isMidInPoly(p1, p2, poly) == isPointInPolyDen(p1.x + p2.x, p1.y + p2.y, 2, poly)

----------------------------------------------------------------------------
(* Winding *)

RECURSIVE SumTo(_, _)
SumTo(f, n) == IF n = 0 THEN 0 ELSE f[n] + SumTo(f, n - 1)

\* The sign (-1, 0, 1) of getSignedArea(points).  The shoelace sum is kept in
\* two limbs, hi * 1024 + lo, so that it stays within 32 bits.
areaSign(hi, lo) ==
    IF hi + (lo \div 1024) < 0 THEN -1
    ELSE IF hi + (lo \div 1024) = 0 /\ lo % 1024 = 0 THEN 0 ELSE 1

\* (p2.x - p1.x) * ((p2.y + p1.y) \div 1024) of edge i
areaHi(points, i) ==
    (points[(i % Len(points)) + 1].x - points[i].x)
        * ((points[(i % Len(points)) + 1].y + points[i].y) \div 1024)

\* (p2.x - p1.x) * ((p2.y + p1.y) % 1024) of edge i
areaLo(points, i) ==
    (points[(i % Len(points)) + 1].x - points[i].x)
        * ((points[(i % Len(points)) + 1].y + points[i].y) % 1024)

getSignedArea(points) ==
    areaSign(SumTo([i \in 1..Len(points) |-> areaHi(points, i)], Len(points)),
             SumTo([i \in 1..Len(points) |-> areaLo(points, i)], Len(points)))

----------------------------------------------------------------------------
(* Sanitizer *)

\* if (cleaned.length > 2 && distance(first, last) < 0.01) cleaned.pop()
cleanClosing(cleaned) ==
    IF Len(cleaned) < 3 THEN cleaned
    ELSE IF arePointsEqual(cleaned[1], cleaned[Len(cleaned)], CLEAN_TOL_SQ)
         THEN SubSeq(cleaned, 1, Len(cleaned) - 1)
         ELSE cleaned

cleanPolygon(points) ==
    IF Len(points) < 3 THEN points
    ELSE cleanClosing(
             FilterIdx(points,
                 {i \in 1..Len(points) :
                     ~arePointsEqual(points[i],
                                     points[IF i = 1 THEN Len(points) ELSE i - 1],
                                     CLEAN_TOL_SQ)}, 1))

----------------------------------------------------------------------------
(* Intersection injector *)

\* a list left in the order of the clip edges
InsertByTLast(sorted, e) == Append(sorted, e)

\* intersections.sort((a, b) => a.t - b.t) is stable: a new entry goes after
\* every entry whose t is not larger
RECURSIVE InsertByT(_, _)
InsertByT(sorted, e) ==
    IF sorted = <<>> THEN <<e>>
    ELSE IF sorted[Len(sorted)].t <= e.t THEN Append(sorted, e)
    ELSE Append(InsertByT(SubSeq(sorted, 1, Len(sorted) - 1), e),
                sorted[Len(sorted)])

\* if (int) intersections.push({ t: distance(s1, int), p: int }), sorted
pushIntersection(rest, s1, int) ==
    IF int = NoPoint THEN rest
    ELSE InsertByT(rest, [t |-> distanceSq(s1, int), p |-> int])

\* the intersections of edge s1-s2 with the clip edges 1..j, sorted by t
RECURSIVE edgeIntersections(_, _, _, _)
edgeIntersections(s1, s2, clip, j) ==
    IF j = 0 THEN <<>>
    ELSE pushIntersection(edgeIntersections(s1, s2, clip, j - 1), s1,
                          getIntersection(s1, s2, clip[j], clip[(j % Len(clip)) + 1]))

\* the points of the sorted intersections that are at neither end of s1-s2
innerPoints(ints, s1, s2) ==
    LET kept == FilterIdx(ints,
                    {k \in 1..Len(ints) :
                        /\ ~arePointsEqual(ints[k].p, s1, EPSILON_SQ)
                        /\ ~arePointsEqual(ints[k].p, s2, EPSILON_SQ)}, 1)
    IN  [k \in 1..Len(kept) |-> kept[k].p]

RECURSIVE injectFrom(_, _, _)
injectFrom(subject, clip, i) ==
    IF i > Len(subject) THEN <<>>
    ELSE <<subject[i]>>
         \o innerPoints(edgeIntersections(subject[i], subject[(i % Len(subject)) + 1],
                                          clip, Len(clip)),
                        subject[i], subject[(i % Len(subject)) + 1])
         \o injectFrom(subject, clip, i + 1)

injectIntersections(subject, clip) == injectFrom(subject, clip, 1)

----------------------------------------------------------------------------
(* Segment stitcher *)

Seg(a, b) == [p1 |-> a, p2 |-> b]

\* segments.splice(i, 1)
RemoveAt(s, i) == SubSeq(s, 1, i - 1) \o SubSeq(s, i + 1, Len(s))

\* outer loop bound of stitchSegments
WATCHDOG_MAX == 5000

\* inner loop bound of stitchSegments
LOOP_WATCHDOG_MAX == 2000

\* d < minD for the initial minD = 9999 (1999800 units); every distance that
\* can be formed from coordinates of less than 999900 units passes it
belowInitialMinD(p, q) == Abs(p.x - q.x) < 999900 /\ Abs(p.y - q.y) < 999900

\* a search that keeps the last of several nearest segments (d <= minD)
nearestIdxLast(tail, segments) ==
    LET cand == {i \in 1..Len(segments) : belowInitialMinD(tail, segments[i].p1)}
        D(i) == distanceSq(tail, segments[i].p1)
    IN  IF cand = {} THEN 0
        ELSE CHOOSE i \in cand :
                \A k \in cand : D(i) < D(k) \/ (D(i) = D(k) /\ i >= k)

\* the index the search loop leaves in nextIdx (0 for -1): the first segment
\* whose start is at the least distance from tail
nearestIdx(tail, segments) ==
    LET cand == {i \in 1..Len(segments) : belowInitialMinD(tail, segments[i].p1)}
        D(i) == distanceSq(tail, segments[i].p1)
    IN  IF cand = {} THEN 0
        ELSE CHOOSE i \in cand :
                \E di \in {D(i)} :
                    \A k \in cand : \E dk \in {D(k)} : di < dk \/ (di = dk /\ i <= k)

RECURSIVE stitchChain(_, _, _, _)
\* one pass of the inner while loop, nextIdx the index the search left
stitchStep(segments, orderedPoints, currentSeg, loopWatchdog, nextIdx) ==
    IF nextIdx # 0 /\ distanceSq(currentSeg.p2, segments[nextIdx].p1) < STITCH_TOL_SQ
    THEN IF distanceSq(segments[nextIdx].p2, Append(orderedPoints, currentSeg.p2)[1])
                < STITCH_TOL_SQ
         THEN [segments |-> RemoveAt(segments, nextIdx),
               orderedPoints |-> Append(Append(orderedPoints, currentSeg.p2),
                                        segments[nextIdx].p2),
               loopClosed |-> TRUE]
         ELSE stitchChain(RemoveAt(segments, nextIdx),
                          Append(orderedPoints, currentSeg.p2),
                          segments[nextIdx], loopWatchdog + 1)
    ELSE IF distanceSq(currentSeg.p2, orderedPoints[1]) < STITCH_TOL_SQ
         THEN [segments |-> segments,
               orderedPoints |-> Append(orderedPoints, currentSeg.p2),
               loopClosed |-> TRUE]
         ELSE [segments |-> segments, orderedPoints |-> orderedPoints,
               loopClosed |-> FALSE]

\* the inner while loop, from its test on
stitchChain(segments, orderedPoints, currentSeg, loopWatchdog) ==
    IF loopWatchdog >= LOOP_WATCHDOG_MAX
    THEN [segments |-> segments, orderedPoints |-> orderedPoints, loopClosed |-> FALSE]
    ELSE stitchStep(segments, orderedPoints, currentSeg, loopWatchdog,
                    nearestIdx(currentSeg.p2, segments))

RECURSIVE stitchLoop(_, _, _)
\* if (loopClosed && orderedPoints.length > 2) polygons.push(...), c the
\* state the inner loop left; then the outer loop again
stitchEmit(c, polygons, watchdog) ==
    stitchLoop(c.segments,
               IF c.loopClosed /\ Len(c.orderedPoints) > 2
               THEN Append(polygons, cleanPolygon(c.orderedPoints))
               ELSE polygons,
               watchdog + 1)

\* the outer while loop, from its test on
stitchLoop(segments, polygons, watchdog) ==
    IF segments = <<>> \/ watchdog >= WATCHDOG_MAX THEN polygons
    ELSE stitchEmit(stitchChain(Tail(segments), <<segments[1].p1>>, segments[1], 0),
                    polygons, watchdog)

stitchSegments(segments) ==
    IF segments = <<>> THEN <<>> ELSE stitchLoop(segments, <<>>, 0)

----------------------------------------------------------------------------
(* Failures.  The engine computes on numbers and arrays only; the one way a  *)
(* step of it raises is a read of .x / .y on an array element that is not a  *)
(* point object.                                                             *)

Thrown == [thrown |-> TRUE]

hasUndefined(points) == \E i \in 1..Len(points) : ~IsPoint(points[i])

\* cleanPolygon compares every element with its predecessor once the array
\* has 3 elements; shorter arrays are handed back unread
cleanPolygonThrows(points) == Len(points) >= 3 /\ hasUndefined(points)

\* getSignedArea reads every element
getSignedAreaThrows(points) == hasUndefined(points)

----------------------------------------------------------------------------
(* Shared operand preparation *)

\* a winding normalization that leaves every polygon as it is
normalizeWindingKeep(poly) == poly

\* if (getSignedArea(poly) < 0) poly.reverse()
normalizeWinding(poly) == IF getSignedArea(poly) < 0 THEN Reverse(poly) ELSE poly

\* lines 475-478, sClean and cClean the sanitized operands
prepareWinding(sClean, cClean) ==
    IF getSignedAreaThrows(sClean) \/ getSignedAreaThrows(cClean) THEN Thrown
    ELSE [sPoly |-> normalizeWinding(sClean), cPoly |-> normalizeWinding(cClean)]

\* lines 472-473, sRaw and cRaw the converted operands
prepareClean(sRaw, cRaw) ==
    IF cleanPolygonThrows(sRaw) \/ cleanPolygonThrows(cRaw) THEN Thrown
    ELSE prepareWinding(cleanPolygon(sRaw), cleanPolygon(cRaw))

prepareBooleanOperands(s, c) == prepareClean(convertToPoints(s), convertToPoints(c))

\* every point of inner passes isPointInPoly against outer
allInside(inner, outer) == \A i \in 1..Len(inner) : isPointInPoly(inner[i], outer)

\* the edges poly[i] -> poly[i+1] (cyclically) from position i on whose
\* midpoint tests against other as wantInside, in order; flipped edges are
\* pushed as p2 -> p1
RECURSIVE edgesFrom(_, _, _, _, _)
edgesFrom(poly, other, wantInside, flipped, i) ==
    IF i > Len(poly) THEN <<>>
    ELSE LET p1 == poly[i]
             p2 == poly[(i % Len(poly)) + 1]
         IN  (IF isMidInPoly(p1, p2, other) = wantInside
              THEN <<IF flipped THEN Seg(p2, p1) ELSE Seg(p1, p2)>>
              ELSE <<>>)
             \o edgesFrom(poly, other, wantInside, flipped, i + 1)

----------------------------------------------------------------------------
(* Diagnostic logger *)

\* DebugLogger.maxLogs
maxLogs == 1000

LogEntry(level, category, message) ==
    [level |-> level, category |-> category, message |-> message]

\* DebugLogger.add: push, then drop the oldest entry beyond maxLogs
add(log, level, category, message) ==
    LET pushed == Append(log, LogEntry(level, category, message))
    IN  IF Len(pushed) > maxLogs THEN Tail(pushed) ELSE pushed

RECURSIVE addAll(_, _)
addAll(log, entries) ==
    IF entries = <<>> THEN log
    ELSE addAll(add(log, entries[1].level, entries[1].category, entries[1].message),
                Tail(entries))

----------------------------------------------------------------------------
(* Array identity.  The engine hands arrays on by reference; an array of a  *)
(* call is either made by the call (Fresh) or it is the points array or the *)
(* holes array of the i-th entity the call was given.                       *)

Fresh == <<"fresh", 0>>

PointsOf(i) == <<"points", i>>

HolesOf(i) == <<"holes", i>>

\* if (ent.type === 'polygon') return ent.points; every other branch builds
\* an array
convertToPointsRef(ent, i) == IF ent.type = "polygon" THEN PointsOf(i) ELSE Fresh

\* a sanitizer that filters the array it was given, without copying it
cleanPolygonRefShared(points, ref) == ref

\* if (points.length < 3) return points; otherwise filter() makes the result
cleanPolygonRef(points, ref) == IF Len(points) < 3 THEN ref ELSE Fresh

\* (ent as PolygonEntity).holes || [] : the entity's own list when it has
\* one (a list that is present but empty is counted as absent)
holesRef(ent, i) ==
    IF ent.type = "polygon" /\ ent.holes # <<>> THEN HolesOf(i) ELSE Fresh

\* if (getSignedArea(poly) < 0) poly.reverse() reverses the array poly names
\* in place: ent is the i-th entity as it is afterwards, clean the array's
\* content before
reversedInPlace(ent, i, ref, clean) ==
    IF ref = PointsOf(i) /\ getSignedArea(clean) < 0
    THEN [ent EXCEPT !.points = Reverse(clean)]
    ELSE ent

----------------------------------------------------------------------------
(* booleanSubtract *)

Poly(polys, holes) == [polys |-> polys, holes |-> holes]

isThrown(r) == "thrown" \in DOMAIN r

\* a degenerate guard that reports no island at all
subtractDegenerateEmpty(sPoly) == Poly(<<>>, <<>>)

\* if (sPoly.length < 3 || cPoly.length < 3) return ...
subtractDegenerate(sPoly) == Poly(<<sPoly>>, <<>>)

\* a reject that reports no island at all
subtractRejectedEmpty(sPoly) == Poly(<<>>, <<>>)

\* if (!doRectsIntersect(sB, cB)) return ...
subtractRejected(sPoly) == Poly(<<sPoly>>, <<>>)

\* a clip-inside shortcut that forgets the holes the subject already had
subtractClipInsideOnlyClip(subject, sPoly, cPoly) == Poly(<<sPoly>>, <<cPoly>>)

\* if (clipInside) { ... }
subtractClipInside(subject, sPoly, cPoly) ==
    LET existingHoles == holesOf(subject)
    IN  Poly(<<sPoly>>, Append(existingHoles, cPoly))

\* a consumed subject reported as one empty island
subtractConsumedOneEmpty == Poly(<< <<>> >>, <<>>)

\* if (subjectInside) return ...
subtractConsumed == Poly(<<>>, <<>>)

\* a pool whose clip edges keep their direction
subtractSegmentsUnflipped(sPoly, cPoly) ==
    edgesFrom(cleanPolygon(injectIntersections(sPoly, cPoly)), cPoly, FALSE, FALSE, 1)
    \o edgesFrom(cleanPolygon(injectIntersections(cPoly, sPoly)), sPoly, TRUE, FALSE, 1)

\* the segment pool of the general case
subtractSegments(sPoly, cPoly) ==
    edgesFrom(cleanPolygon(injectIntersections(sPoly, cPoly)), cPoly, FALSE, FALSE, 1)
    \o edgesFrom(cleanPolygon(injectIntersections(cPoly, sPoly)), sPoly, TRUE, TRUE, 1)

subtractGeneral(subject, sPoly, cPoly) ==
    Poly(stitchSegments(subtractSegments(sPoly, cPoly)), holesOf(subject))

\* a catch block that hands back the subject with its holes
subtractCatchKeepsHoles(subject) == Poly(<<convertToPoints(subject)>>, holesOf(subject))

\* catch (e) { ...; return ... }
subtractCatch(subject) == Poly(<<convertToPoints(subject)>>, <<>>)

\* The whole call: ret is the returned value, log the entries handed to the
\* logger in order, steps the stages entered.
\* logger.log('BOOLEAN', `Subtracting ${clip.type} from ${subject.type}`)
subtractStart(subject, clip) ==
    LogEntry("INFO", "BOOLEAN", <<"Subtracting", clip.type, subject.type>>)

\* logger.log('BOOLEAN', `Result Islands: ${islands.length}`); return ...
subtractReturn(subject, clip, r) ==
    [ret |-> r,
     log |-> <<subtractStart(subject, clip),
               LogEntry("INFO", "BOOLEAN", <<"Result Islands", Len(r.polys)>>)>>,
     steps |-> <<"convert", "clean", "normalize", "bounds", "clipInside",
                 "subjectInside", "inject", "classify", "stitch">>]

\* the try block from the degenerate guard on, ops the prepared operands or
\* Thrown
subtractPrepared(subject, clip, ops) ==
    IF isThrown(ops)
    THEN [ret |-> subtractCatch(subject),
          log |-> <<subtractStart(subject, clip),
                    LogEntry("ERROR", "BOOLEAN", <<"Subtract Failed">>)>>,
          steps |-> <<"convert", "clean", "catch">>]
    ELSE IF Len(ops.sPoly) < 3 \/ Len(ops.cPoly) < 3
    THEN [ret |-> subtractDegenerate(ops.sPoly),
          log |-> <<subtractStart(subject, clip)>>,
          steps |-> <<"convert", "clean", "normalize">>]
    ELSE IF ~doRectsIntersect(getBounds(subject), getBounds(clip))
    THEN [ret |-> subtractRejected(ops.sPoly),
          log |-> <<subtractStart(subject, clip)>>,
          steps |-> <<"convert", "clean", "normalize", "bounds">>]
    ELSE IF allInside(ops.cPoly, ops.sPoly)
    THEN [ret |-> subtractClipInside(subject, ops.sPoly, ops.cPoly),
          log |-> <<subtractStart(subject, clip)>>,
          steps |-> <<"convert", "clean", "normalize", "bounds", "clipInside">>]
    ELSE IF allInside(ops.sPoly, ops.cPoly)
    THEN [ret |-> subtractConsumed,
          log |-> <<subtractStart(subject, clip)>>,
          steps |-> <<"convert", "clean", "normalize", "bounds", "clipInside",
                      "subjectInside">>]
    ELSE subtractReturn(subject, clip, subtractGeneral(subject, ops.sPoly, ops.cPoly))

booleanSubtract(subject, clip) ==
    subtractPrepared(subject, clip, prepareBooleanOperands(subject, clip))

\* the array sPoly names
subtractSubjectRef(subject) ==
    cleanPolygonRef(convertToPoints(subject), convertToPointsRef(subject, 1))

\* which array objects the returned islands and the returned hole list are,
\* by the return statement taken
subtractOwnerAt(subject, r, last) ==
    IF last = "catch"
    THEN [polys |-> <<convertToPointsRef(subject, 1)>>, holes |-> Fresh]
    ELSE IF last \in {"normalize", "bounds", "clipInside"}
    THEN [polys |-> <<subtractSubjectRef(subject)>>, holes |-> Fresh]
    ELSE IF last = "subjectInside"
    THEN [polys |-> <<>>, holes |-> Fresh]
    ELSE [polys |-> [i \in 1..Len(r.ret.polys) |-> Fresh],
          holes |-> holesRef(subject, 1)]

subtractOwnerOf(subject, r) == subtractOwnerAt(subject, r, r.steps[Len(r.steps)])

\* lines 475-476 on the arrays sPoly and cPoly name
subtractWindingInPlace(subject, clip, sClean, cClean, sRef, cRef) ==
    IF getSignedAreaThrows(sClean) THEN <<subject, clip>>
    ELSE << reversedInPlace(subject, 1, sRef, sClean),
            IF getSignedAreaThrows(cClean) THEN clip
            ELSE reversedInPlace(clip, 2, cRef, cClean) >>

\* the two entities as the call leaves them, sRaw and cRaw their converted
\* boundaries
subtractInPlace(subject, clip, sRaw, cRaw) ==
    IF cleanPolygonThrows(sRaw) \/ cleanPolygonThrows(cRaw) THEN <<subject, clip>>
    ELSE subtractWindingInPlace(subject, clip, cleanPolygon(sRaw), cleanPolygon(cRaw),
                                cleanPolygonRef(sRaw, convertToPointsRef(subject, 1)),
                                cleanPolygonRef(cRaw, convertToPointsRef(clip, 2)))

----------------------------------------------------------------------------
(* booleanUnion.  entities[1] is the code's entities[0]. *)

Outline(points, holes) == [points |-> points, holes |-> holes]

\* a guard that lets a single entity through
unionGuardOffByOne(entities) == Len(entities) < 1

\* if (entities.length < 2) ...
unionGuard(entities) == Len(entities) < 2

\* ... return { points: [], holes: [] }
unionTooFew == Outline(<<>>, <<>>)

\* a catch block that hands back entity[0] with its holes
unionCatchKeepsHoles(entities) ==
    Outline(convertToPoints(entities[1]), holesOf(entities[1]))

\* catch (e) { ...; return ... }
unionCatch(entities) == Outline(convertToPoints(entities[1]), <<>>)

\* the segment pool of one fold step
unionSegments(currentPoly, nextPolyCW) ==
    edgesFrom(cleanPolygon(injectIntersections(currentPoly, nextPolyCW)),
              nextPolyCW, FALSE, FALSE, 1)
    \o edgesFrom(cleanPolygon(injectIntersections(nextPolyCW, currentPoly)),
                 currentPoly, FALSE, FALSE, 1)

\* the accumulator after `if (resultSegments.length === 0) ... else ...`
\* if (stitched.length > 0) currentPoly = stitched[0]
unionStitched(stitched, currentPoly, currentHoles) ==
    IF Len(stitched) > 0
    THEN [poly |-> stitched[1], holes |-> currentHoles, how |-> "stitched"]
    ELSE [poly |-> currentPoly, holes |-> currentHoles, how |-> "unstitched"]

unionAdopt(resultSegments, currentPoly, currentHoles, nextPolyCW, next) ==
    IF resultSegments = <<>>
    THEN IF allInside(currentPoly, nextPolyCW)
         THEN [poly |-> nextPolyCW, holes |-> holesOf(next), how |-> "contained"]
         ELSE [poly |-> currentPoly, holes |-> currentHoles, how |-> "kept"]
    ELSE unionStitched(stitchSegments(resultSegments), currentPoly, currentHoles)

\* the for loop from index k on; trace records, per fold step, the two
\* polygons that entered it and the accumulator that left it
RECURSIVE unionFold(_, _, _, _, _)
\* the end of one fold step, a the accumulator it leaves
unionNext(entities, k, cur, currentHoles, nextPolyCW, pool, a, trace) ==
    unionFold(entities, k + 1, a.poly, a.holes,
              Append(trace, [k |-> k, cur |-> cur, curHoles |-> currentHoles,
                             next |-> nextPolyCW, pool |-> pool, how |-> a.how,
                             poly |-> a.poly, holes |-> a.holes]))

\* lines 569-579 of one fold step, segs its segment pool
unionPooled(entities, k, cur, currentHoles, nextPolyCW, segs, trace) ==
    unionNext(entities, k, cur, currentHoles, nextPolyCW, Len(segs),
              unionAdopt(segs, cur, currentHoles, nextPolyCW, entities[k]), trace)

\* lines 550-567 of one fold step, both polygons winding-normalized
unionNormalized(entities, k, cur, currentHoles, nextPolyCW, trace) ==
    unionPooled(entities, k, cur, currentHoles, nextPolyCW,
                unionSegments(cur, nextPolyCW), trace)

\* lines 545-548 of one fold step, nextPoly the sanitized next polygon
unionCleaned(entities, k, currentPoly, currentHoles, nextPoly, trace) ==
    IF Len(nextPoly) < 3
    THEN unionFold(entities, k + 1, currentPoly, currentHoles, trace)
    ELSE IF getSignedAreaThrows(currentPoly) THEN [thrown |-> TRUE, trace |-> trace]
    ELSE unionNormalized(entities, k, normalizeWinding(currentPoly), currentHoles,
                         normalizeWinding(nextPoly), trace)

\* line 544 of one fold step, nextRaw the converted next entity
unionConverted(entities, k, currentPoly, currentHoles, nextRaw, trace) ==
    IF cleanPolygonThrows(nextRaw) THEN [thrown |-> TRUE, trace |-> trace]
    ELSE unionCleaned(entities, k, currentPoly, currentHoles,
                      cleanPolygon(nextRaw), trace)

unionFold(entities, k, currentPoly, currentHoles, trace) ==
    IF k > Len(entities)
    THEN [points |-> currentPoly, holes |-> currentHoles, trace |-> trace]
    ELSE unionConverted(entities, k, currentPoly, currentHoles,
                        convertToPoints(entities[k]), trace)

\* The whole call: ret the returned value, log the entries handed to the
\* logger, steps the fold steps made.
\* logger.log('BOOLEAN', 'Starting Union...')
unionStart == LogEntry("INFO", "BOOLEAN", <<"Starting Union...">>)

\* logger.error('BOOLEAN', 'Union Failed', e)
unionFailed == LogEntry("ERROR", "BOOLEAN", <<"Union Failed">>)

\* the return after the loop, or the catch block; f is what the loop left
unionReturn(entities, f) ==
    IF isThrown(f)
    THEN [ret |-> unionCatch(entities), log |-> <<unionStart, unionFailed>>,
          steps |-> f.trace]
    ELSE [ret |-> Outline(f.points, f.holes), log |-> <<unionStart>>,
          steps |-> f.trace]

\* the try block, firstRaw the converted entities[0]
unionFirst(entities, firstRaw) ==
    IF cleanPolygonThrows(firstRaw)
    THEN [ret |-> unionCatch(entities), log |-> <<unionStart, unionFailed>>,
          steps |-> <<>>]
    ELSE unionReturn(entities,
                     unionFold(entities, 2, cleanPolygon(firstRaw),
                               holesOf(entities[1]), <<>>))

booleanUnion(entities) ==
    IF unionGuard(entities) THEN [ret |-> unionTooFew, log |-> <<>>, steps |-> <<>>]
    ELSE unionFirst(entities, convertToPoints(entities[1]))

\* the array currentPoly names before the loop
unionFirstRef(entities) ==
    cleanPolygonRef(convertToPoints(entities[1]), convertToPointsRef(entities[1], 1))

\* the fold steps of trace that assigned currentPoly
unionAssigned(trace) ==
    {i \in 1..Len(trace) : trace[i].how \in {"contained", "stitched"}}

\* the fold steps of trace that assigned currentHoles
unionContained(trace) == {i \in 1..Len(trace) : trace[i].how = "contained"}

\* which array objects the returned outline and the returned hole list are:
\* currentPoly is entities[0]'s array until a step assigns it (nextPolyCW and
\* stitched[0] are made by the call), currentHoles is the hole list of the
\* entity it was last taken from
unionOwnerOf(entities, r) ==
    IF unionGuard(entities) THEN [points |-> Fresh, holes |-> Fresh]
    ELSE IF Len(r.log) = 2
    THEN [points |-> convertToPointsRef(entities[1], 1), holes |-> Fresh]
    ELSE [points |-> IF unionAssigned(r.steps) = {} THEN unionFirstRef(entities)
                     ELSE Fresh,
          holes |-> IF unionContained(r.steps) = {} THEN holesRef(entities[1], 1)
                    ELSE holesRef(entities[r.steps[SetMax(unionContained(r.steps))].k],
                                  r.steps[SetMax(unionContained(r.steps))].k)]

\* the entities as the call leaves them: line 547 reverses currentPoly in
\* place on the first fold step that gets there, while currentPoly is still
\* the array made from entities[0]
unionInPlaceOf(entities, r) ==
    IF unionGuard(entities) \/ r.steps = <<>> THEN entities
    ELSE [entities EXCEPT
            ![1] = reversedInPlace(entities[1], 1, unionFirstRef(entities),
                                   cleanPolygon(convertToPoints(entities[1])))]

----------------------------------------------------------------------------
(* The entities the operations are called with.  U(n) is n.0 in units.     *)

U(n) == n * 200

Sq(x, y, w, h) == Rectangle(U(x), U(y), U(w), U(h))

\* the 10 x 10 outline, counter-clockwise and clockwise in the engine's sense
OutlineA == <<Pt(0, U(10)), Pt(U(10), U(10)), Pt(U(10), 0), Pt(0, 0)>>

HoleA == <<Pt(U(1), U(2)), Pt(U(2), U(2)), Pt(U(2), U(1)), Pt(U(1), U(1))>>

HoleB == <<Pt(U(7), U(8)), Pt(U(8), U(8)), Pt(U(8), U(7))>>

\* an L-shaped outline and an outline with vertices closer than 0.01
OutlineL ==
    <<Pt(0, 0), Pt(0, U(12)), Pt(U(4), U(12)), Pt(U(4), U(4)), Pt(U(12), U(4)),
      Pt(U(12), 0)>>

OutlineDup ==
    <<Pt(0, 0), Pt(1, 0), Pt(0, U(10)), Pt(U(10), U(10)), Pt(U(10), U(10)),
      Pt(U(10), 0), Pt(1, 1)>>

Subjects ==
    { Sq(0, 0, 10, 10), Sq(0, 0, 100, 100), Sq(50, 50, 10, 10), Sq(0, 0, 10, 0),
      Polygon(OutlineA, <<HoleA>>), Polygon(Reverse(OutlineA), <<HoleA, HoleB>>),
      Polygon(OutlineL, <<>>), Polygon(OutlineDup, <<HoleB>>),
      Polygon(<<Pt(0, 0), Pt(U(10), 0)>>, <<HoleA>>),
      Polygon(<<Pt(0, 0), Undefined, Pt(U(10), U(10)), Pt(0, U(10))>>, <<HoleA>>),
      Polygon(<<Pt(0, 0), Undefined>>, <<>>),
      Line(0, 0, U(10), 0) }

ClipXs == {-4, 2, 10, 12}

ClipYs == {-4, 3}

ClipWidths == {3, 10, 20}

ClipHeights == {3, 20}

Clips ==
    { Sq(x, y, w, h) : x \in ClipXs, y \in ClipYs, w \in ClipWidths, h \in ClipHeights }
    \cup
    { Sq(40, 40, 10, 10), Sq(-50, -50, 200, 200), Sq(3, 3, 0, 5),
      Polygon(OutlineA, <<HoleA>>), Polygon(OutlineDup, <<>>),
      Polygon(<<Pt(U(1), U(1)), Pt(U(3), U(1)), Pt(U(2), U(3))>>, <<HoleB>>),
      Polygon(<<Pt(U(-2), U(5)), Pt(U(5), U(-2)), Pt(U(12), U(5)), Pt(U(5), U(12))>>, <<>>),
      Polygon(<<Pt(U(2), U(2)), Pt(U(2), U(2)), Pt(U(2) + 1, U(2)), Pt(U(5), U(5))>>, <<>>),
      Polygon(<<Pt(U(2), U(2)), Pt(U(3), U(2)), Undefined>>, <<>>),
      Line(U(5), U(-2), U(5), U(12)), Line(U(2), U(2), U(5), U(6)),
      Line(U(5), U(-1), U(5), U(-1)), Line(U(-1), U(3), U(-1), U(7)),
      Line(U(3), U(3), U(7), U(3)) }

Init ==
    /\ pc = "idle"
    /\ args = <<>>
    /\ result = [none |-> TRUE]
    /\ steps = <<>>
    /\ logs = <<>>
    /\ calls = 0
    /\ owner = [none |-> TRUE]
    /\ history = <<>>
    /\ frame = [none |-> TRUE]

\* number of operations one behaviour starts
MaxCalls == 1

\* a return that hands the result back only while the logger is empty
ReturnWhileQuiet(r) ==
    /\ result' = IF logs = <<>> THEN r.ret ELSE [none |-> TRUE]
    /\ steps' = r.steps
    /\ logs' = addAll(logs, r.log)

\* the call hands r.ret back to its caller; r.log has reached the logger
Return(r) ==
    /\ result' = r.ret
    /\ steps' = r.steps
    /\ logs' = addAll(logs, r.log)

\* booleanSubtract returns r: the caller holds the result, whose arrays are
\* the objects owner names, and its two entities as the call left them
ReturnSubtract(subject, clip, r) ==
    /\ Return(r)
    /\ owner' = subtractOwnerOf(subject, r)
    /\ args' = subtractInPlace(subject, clip,
                               convertToPoints(subject), convertToPoints(clip))

\* booleanUnion returns r
ReturnUnion(entities, r) ==
    /\ Return(r)
    /\ owner' = unionOwnerOf(entities, r)
    /\ args' = unionInPlaceOf(entities, r)

\* the caller hands subject and clip to booleanSubtract
CallSubtract(subject, clip) ==
    /\ pc = "idle"
    /\ calls < MaxCalls
    /\ pc' = "booleanSubtract"
    /\ args' = <<subject, clip>>
    /\ calls' = calls + 1
    /\ result' = [none |-> TRUE]
    /\ steps' = <<>>
    /\ owner' = [none |-> TRUE]
    /\ UNCHANGED <<logs, history, frame>>

\* the body of booleanSubtract, to its return
RunSubtract ==
    /\ pc = "booleanSubtract"
    /\ ReturnSubtract(args[1], args[2], booleanSubtract(args[1], args[2]))
    /\ pc' = "idle"
    /\ UNCHANGED <<calls, history, frame>>

NextSubtract ==
    \/ \E subject \in Subjects, clip \in Clips : CallSubtract(subject, clip)
    \/ RunSubtract

SpecSubtract == Init /\ [][NextSubtract]_vars

----------------------------------------------------------------------------
(* booleanUnion calls *)

HoleC == <<Pt(U(-2), U(-2)), Pt(U(-1), U(-2)), Pt(U(-1), U(-1))>>

UnionEntities ==
    { Sq(0, 0, 10, 10), Sq(5, 0, 10, 10), Sq(5, 5, 10, 10), Sq(30, 0, 10, 10),
      Polygon(OutlineA, <<HoleA>>),
      Polygon(<<Pt(U(-4), U(-4)), Pt(U(16), U(-4)), Pt(U(16), U(16)), Pt(U(-4), U(16))>>,
              <<HoleC>>),
      Polygon(<<Pt(0, 0), Undefined, Pt(U(10), U(10)), Pt(0, U(10))>>, <<HoleA>>),
      Polygon(<<Pt(0, 0), Undefined>>, <<HoleB>>),
      Line(U(5), U(-1), U(5), U(-1)) }

\* longest entity list handed to booleanUnion
MaxEntities == 3

RECURSIVE ListsOf(_, _)
ListsOf(S, n) ==
    IF n = 0 THEN {<<>>}
    ELSE {<<>>} \cup {Append(l, e) : l \in {m \in ListsOf(S, n - 1) : Len(m) = n - 1},
                                      e \in S}
                \cup ListsOf(S, n - 1)

\* the caller hands the selected entities to booleanUnion
CallUnion(entities) ==
    /\ pc = "idle"
    /\ calls < MaxCalls
    /\ pc' = "booleanUnion"
    /\ args' = entities
    /\ calls' = calls + 1
    /\ result' = [none |-> TRUE]
    /\ steps' = <<>>
    /\ owner' = [none |-> TRUE]
    /\ UNCHANGED <<logs, history, frame>>

\* the body of booleanUnion, to its return
RunUnion ==
    /\ pc = "booleanUnion"
    /\ ReturnUnion(args, booleanUnion(args))
    /\ pc' = "idle"
    /\ UNCHANGED <<calls, history, frame>>

NextUnion ==
    \/ \E entities \in ListsOf(UnionEntities, MaxEntities) : CallUnion(entities)
    \/ RunUnion

SpecUnion == Init /\ [][NextUnion]_vars

----------------------------------------------------------------------------
(* Properties of booleanSubtract, checked under SpecSubtract *)

\* an operation has returned
Returned == pc = "idle" /\ calls > 0

argSubject == args[1]

argClip == args[2]

\* every element of the entity's point array is a point
wellFormed(ent) == ~hasUndefined(convertToPoints(ent))

\* the operand polygon of step 1: converted, sanitized, winding-normalized
Prepared(ent) == normalizeWinding(cleanPolygon(convertToPoints(ent)))

\* both operands are well formed and have bounds
BothUsable ==
    /\ wellFormed(argSubject) /\ Len(convertToPoints(argSubject)) > 0
    /\ wellFormed(argClip) /\ Len(convertToPoints(argClip)) > 0

boundsOverlap == doRectsIntersect(getBounds(argSubject), getBounds(argClip))

StageSet == {steps[i] : i \in 1..Len(steps)}

ErrorCount(log) == Cardinality({i \in 1..Len(log) : log[i].level = "ERROR"})

VertexSet(poly) == {poly[i] : i \in 1..Len(poly)}

C2_ContainmentShortcut ==
    /\ (Returned /\ BothUsable
        /\ Len(Prepared(argSubject)) >= 3 /\ Len(Prepared(argClip)) >= 3
        /\ boundsOverlap
        /\ \A i \in 1..Len(Prepared(argClip)) :
              isPointInPoly(Prepared(argClip)[i], Prepared(argSubject)))
       => /\ result.polys = <<Prepared(argSubject)>>
          /\ result.holes = holesOf(argSubject) \o <<Prepared(argClip)>>
          /\ StageSet \cap {"inject", "classify", "stitch"} = {}
    /\ (Returned /\ args = <<Sq(0, 0, 100, 100), Sq(40, 40, 10, 10)>>)
       => /\ Len(result.polys) = 1 /\ Len(result.polys[1]) = 4
          /\ VertexSet(result.polys[1]) =
                {Pt(0, 0), Pt(U(100), 0), Pt(U(100), U(100)), Pt(0, U(100))}
          /\ Len(result.holes) = 1 /\ Len(result.holes[1]) = 4
          /\ VertexSet(result.holes[1]) =
                {Pt(U(40), U(40)), Pt(U(50), U(40)), Pt(U(50), U(50)), Pt(U(40), U(50))}

\* a clip inside a subject that already had holes has been cut out
C2_Witness ==
    /\ Returned /\ BothUsable
    /\ Len(Prepared(argClip)) >= 3
    /\ \A i \in 1..Len(Prepared(argClip)) :
          isPointInPoly(Prepared(argClip)[i], Prepared(argSubject))
    /\ Len(holesOf(argSubject)) = 2
    /\ Len(result.holes) = 3
    /\ result.holes[3] = Prepared(argClip)

\* C3 as stated: whenever the bounds overlap and every vertex of the subject
\* is inside the clip, the result has no island and no hole.
C3_FullConsumptionAsStated ==
    (Returned /\ BothUsable /\ boundsOverlap
     /\ \A i \in 1..Len(Prepared(argSubject)) :
           isPointInPoly(Prepared(argSubject)[i], Prepared(argClip)))
    => result = [polys |-> <<>>, holes |-> <<>>]

\* C3: full consumption.  When the subject has at least 3 points after
\* sanitizing, the bounds overlap and every vertex of the subject is inside
\* the clip, the result has no island and no hole.
C3_FullConsumption ==
    (Returned /\ BothUsable /\ boundsOverlap
     /\ Len(Prepared(argSubject)) >= 3
     /\ \A i \in 1..Len(Prepared(argSubject)) :
           isPointInPoly(Prepared(argSubject)[i], Prepared(argClip)))
    => result = [polys |-> <<>>, holes |-> <<>>]

\* the 10 x 10 subject covered by the 200 x 200 clip has been consumed
C3_Witness ==
    /\ Returned
    /\ args = <<Sq(50, 50, 10, 10), Sq(-50, -50, 200, 200)>>
    /\ \A i \in 1..4 : isPointInPoly(Prepared(argSubject)[i], Prepared(argClip))
    /\ result = [polys |-> <<>>, holes |-> <<>>]

\* C4: bounding-box reject.  Whenever the bounds of subject and clip do not
\* overlap, the result is exactly one island, the subject's boundary with no
\* vertex added, removed or moved, whatever the clip is.
C4_BoundsReject ==
    (Returned /\ BothUsable /\ ~boundsOverlap)
    => /\ result.polys = <<Prepared(argSubject)>>
       /\ VertexSet(result.polys[1]) = VertexSet(cleanPolygon(convertToPoints(argSubject)))

\* a clip away from a subject of at least 3 points has been ignored
C4_Witness ==
    /\ Returned /\ BothUsable /\ ~boundsOverlap
    /\ Len(Prepared(argSubject)) >= 3 /\ Len(Prepared(argClip)) >= 3
    /\ "bounds" \in StageSet
    /\ result.polys = <<Prepared(argSubject)>>

\* C5 as stated: when the bounds of a subject and a clip (of at least 3 points
\* each) do not overlap, the subject comes back unchanged as a polygon with
\* holes: the returned hole list is the hole list the subject already had.
C5_RejectKeepsHoles ==
    (Returned /\ BothUsable /\ ~boundsOverlap
     /\ Len(Prepared(argSubject)) >= 3 /\ Len(Prepared(argClip)) >= 3)
    => result.holes = holesOf(argSubject)

\* C6: degenerate guard.  When either operand has fewer than 3 points after
\* conversion and sanitizing, the result is exactly one island, the subject
\* polygon, with an empty hole list, and neither the bounds check nor the
\* containment tests, the injection or the stitcher is run.
C6_DegenerateGuard ==
    (Returned /\ wellFormed(argSubject) /\ wellFormed(argClip)
     /\ (Len(Prepared(argSubject)) < 3 \/ Len(Prepared(argClip)) < 3))
    => /\ result = [polys |-> <<Prepared(argSubject)>>, holes |-> <<>>]
       /\ StageSet \cap {"bounds", "clipInside", "subjectInside",
                         "inject", "classify", "stitch"} = {}

\* a zero-length line has been subtracted from a subject that carries holes
C6_Witness ==
    /\ Returned /\ wellFormed(argSubject)
    /\ argClip.type = "line" /\ convertToPoints(argClip) = <<>>
    /\ Len(Prepared(argSubject)) >= 3
    /\ holesOf(argSubject) # <<>>
    /\ result = [polys |-> <<Prepared(argSubject)>>, holes |-> <<>>]

----------------------------------------------------------------------------
(* Properties of booleanUnion, checked under SpecUnion *)

\* b read from some position on, cyclically, is a
SameLoop(a, b) ==
    /\ Len(a) = Len(b)
    /\ \E r \in 0..Len(b) :
          \A i \in 1..Len(a) : a[i] = b[((i - 1 + r) % Len(b)) + 1]

BoundsOf(points) ==
    [x1 |-> SetMin({points[i].x : i \in 1..Len(points)}),
     y1 |-> SetMin({points[i].y : i \in 1..Len(points)}),
     x2 |-> SetMax({points[i].x : i \in 1..Len(points)}),
     y2 |-> SetMax({points[i].y : i \in 1..Len(points)})]

\* C7 as stated: the union of two 10 x 10 squares, the second offset by (5, 0),
\* is one 6-sided outline covering the combined 15 x 10 footprint, no holes.
C7_UnionOfOffsetSquares ==
    (Returned /\ args = <<Sq(0, 0, 10, 10), Sq(5, 0, 10, 10)>>)
    => /\ Len(result.points) = 6
       /\ BoundsOf(result.points) = [x1 |-> 0, y1 |-> 0, x2 |-> U(15), y2 |-> U(10)]
       /\ result.holes = <<>>

\* C8: booleanUnion of fewer than 2 entities returns the empty result (no
\* point, no hole) and converts, injects, stitches and logs nothing.
C8_UnionTooFew ==
    [][ (pc = "booleanUnion" /\ Len(args) < 2)
        => /\ result' = [points |-> <<>>, holes |-> <<>>]
           /\ steps' = <<>>
           /\ logs' = logs ]_vars

\* a single entity whose conversion would have raised has been left unread
C8_Witness ==
    /\ Returned
    /\ Len(args) = 1
    /\ ~wellFormed(args[1])
    /\ result = [points |-> <<>>, holes |-> <<>>]
    /\ ErrorCount(logs) = 0

\* a fold step of the union raises: an entity of at least 3 array elements
\* holds one that is not a point, or entity[0] has fewer than 3 elements, one
\* of them not a point, and is read when a later entity is folded in
unionRaises(entities) ==
    \/ \E k \in 1..Len(entities) :
          /\ Len(convertToPoints(entities[k])) >= 3
          /\ ~wellFormed(entities[k])
    \/ /\ Len(convertToPoints(entities[1])) < 3
       /\ ~wellFormed(entities[1])
       /\ \E k \in 2..Len(entities) :
             wellFormed(entities[k]) /\ Len(Prepared(entities[k])) >= 3

\* C9: when a fold step of booleanUnion raises, the call still returns, the
\* result is entity[0]'s raw converted boundary with an empty hole list
\* whatever the accumulator had become, and exactly one ERROR entry is added to
\* the diagnostic log, as its last entry.
C9_UnionFallback ==
    [][ (pc = "booleanUnion" /\ Len(args) >= 2 /\ unionRaises(args))
        => /\ pc' = "idle"
           /\ result' = [points |-> convertToPoints(args[1]), holes |-> <<>>]
           /\ ErrorCount(logs') = ErrorCount(logs) + 1
           /\ logs'[Len(logs')].level = "ERROR" ]_vars

\* the third entity raised after the second had replaced the accumulator, and
\* entity[0], which carries holes, came back raw and without them
C9_Witness ==
    /\ Returned
    /\ Len(args) = 3
    /\ wellFormed(args[1]) /\ wellFormed(args[2]) /\ ~wellFormed(args[3])
    /\ holesOf(args[1]) # <<>>
    /\ Len(steps) = 1
    /\ steps[1].poly # steps[1].cur
    /\ result = [points |-> convertToPoints(args[1]), holes |-> <<>>]
    /\ result.points # steps[1].poly
    /\ logs[Len(logs)].level = "ERROR"

\* neither polygon gets a vertex injected from the other
noCrossing(a, b) == injectIntersections(a, b) = a /\ injectIntersections(b, a) = b

\* C10 as stated: in a fold step without edge crossings where one polygon has
\* every vertex inside the other, the accumulator after the step is the
\* containing polygon together with the containing polygon's own hole list.
C10_UnionContainment ==
    Returned =>
        \A i \in 1..Len(steps) :
            LET st == steps[i]
            IN  /\ (Len(st.cur) >= 3 /\ noCrossing(st.cur, st.next)
                    /\ allInside(st.cur, st.next))
                   => /\ SameLoop(st.poly, st.next)
                      /\ st.holes = holesOf(args[st.k])
                /\ (Len(st.cur) >= 3 /\ noCrossing(st.cur, st.next)
                    /\ allInside(st.next, st.cur))
                   => /\ SameLoop(st.poly, st.cur)
                      /\ st.holes = st.curHoles

----------------------------------------------------------------------------
(* cleanPolygon on its own: the input is drawn at the start, the sanitizer  *)
(* runs on it and can then be run again on what it returned.                *)

\* three points closer than 0.01 to each other around the origin, and three
\* corners of the 10 x 10 square
CleanPoints ==
    {Pt(0, 0), Pt(1, 1), Pt(-1, 0), Pt(U(10), 0), Pt(U(10), U(10)), Pt(0, U(10))}

\* longest point sequence handed to cleanPolygon
MaxLen == 5

\* number of times the sanitizer is run in a row
MaxCleanings == 2

InitClean ==
    /\ pc = "cleanPolygon"
    /\ args \in ListsOf(CleanPoints, MaxLen)
    /\ result = [none |-> TRUE]
    /\ steps = <<>>
    /\ logs = <<>>
    /\ calls = 1
    /\ owner = [none |-> TRUE]
    /\ history = <<>>
    /\ frame = [none |-> TRUE]

\* the body of cleanPolygon, to its return
RunClean ==
    /\ pc = "cleanPolygon"
    /\ result' = cleanPolygon(args)
    /\ history' = Append(history, [op |-> "cleanPolygon", args |-> args,
                                   ret |-> cleanPolygon(args)])
    /\ pc' = "idle"
    /\ UNCHANGED <<args, steps, logs, calls, owner, frame>>

\* cleanPolygon is called on what it returned
CallCleanAgain ==
    /\ pc = "idle"
    /\ Len(history) < MaxCleanings
    /\ pc' = "cleanPolygon"
    /\ args' = result
    /\ calls' = calls + 1
    /\ UNCHANGED <<result, steps, logs, owner, history, frame>>

NextClean == RunClean \/ CallCleanAgain

SpecClean == InitClean /\ [][NextClean]_vars

\* the k-th point of poly lies within 0.01 of its cyclic predecessor
nearPredecessor(poly, k) ==
    arePointsEqual(poly[k], poly[IF k = 1 THEN Len(poly) ELSE k - 1], CLEAN_TOL_SQ)

\* C11: sanitization is idempotent: whenever cleanPolygon is run on what
\* cleanPolygon returned, it returns the same points in the same order.
C11_Idempotent ==
    \A i \in 2..Len(history) :
        history[i].args = history[i - 1].ret => history[i].ret = history[i].args

\* C17: for every input of at least 3 points whose result has at least 3
\* points, no point of the result lies within 0.01 of its cyclic predecessor
\* in the result, the last-to-first pair included.
C17_NoNearDuplicates ==
    \A i \in 1..Len(history) :
        (Len(history[i].args) >= 3 /\ Len(history[i].ret) >= 3)
            => \A k \in 1..Len(history[i].ret) : ~nearPredecessor(history[i].ret, k)

----------------------------------------------------------------------------
(* Both operations, called in any order *)

\* the entities of the unions that are mixed with subtractions: two crossing
\* squares, a polygon with a hole, a polygon that contains it, and a polygon
\* of 2 elements whose conversion makes the call raise
BooleanEntities ==
    { Sq(0, 0, 10, 10), Sq(5, 5, 10, 10),
      Polygon(OutlineA, <<HoleA>>),
      Polygon(<<Pt(U(-4), U(-4)), Pt(U(16), U(-4)), Pt(U(16), U(16)), Pt(U(-4), U(16))>>,
              <<HoleC>>),
      Polygon(<<Pt(0, 0), Undefined>>, <<HoleB>>) }

NextBoolean ==
    \/ NextSubtract
    \/ \E entities \in ListsOf(BooleanEntities, MaxEntities) : CallUnion(entities)
    \/ RunUnion

SpecBoolean == Init /\ [][NextBoolean]_vars

\* the last operation was booleanSubtract and has returned
ReturnedSubtract == pc = "idle" /\ "polys" \in DOMAIN result

\* the last operation was booleanUnion and has returned
ReturnedUnion == pc = "idle" /\ "points" \in DOMAIN result

\* C12: winding invariant.  Every polygon that enters containment testing,
\* intersection injection or edge classification has signed area >= 0: both
\* prepared operands of a booleanSubtract call that got past the bounds test,
\* and the accumulator and the next polygon of every fold step of booleanUnion.
C12_WindingInvariant ==
    /\ (ReturnedSubtract /\ "clipInside" \in StageSet)
        => /\ getSignedArea(Prepared(argSubject)) >= 0
           /\ getSignedArea(Prepared(argClip)) >= 0
    /\ ReturnedUnion
        => \A i \in 1..Len(steps) :
              getSignedArea(steps[i].cur) >= 0 /\ getSignedArea(steps[i].next) >= 0

\* a subtraction whose subject was stored with negative area went through
\* injection, classification and stitching
C12_Witness ==
    /\ ReturnedSubtract
    /\ "stitch" \in StageSet
    /\ getSignedArea(cleanPolygon(convertToPoints(argSubject))) < 0
    /\ getSignedArea(Prepared(argSubject)) > 0

----------------------------------------------------------------------------
(* stitchSegments, one loop test or loop body per step.  frame holds the   *)
(* locals of the call: the pool, the closed islands, the current chain     *)

\* const polygons = []; let watchdog = 0
stitchFrame(segments) ==
    [segments |-> segments, polygons |-> <<>>, watchdog |-> 0,
     orderedPoints |-> <<>>, currentSeg |-> [none |-> TRUE],
     loopWatchdog |-> 0, loopClosed |-> FALSE]

\* a seeding that leaves the seed in the pool
chainSeedKeep(f) ==
    [f EXCEPT !.orderedPoints = <<f.segments[1].p1>>,
              !.currentSeg = f.segments[1],
              !.loopWatchdog = 0,
              !.loopClosed = FALSE]

\* currentSeg = segments[0]; segments.splice(0, 1); orderedPoints.push(p1)
chainSeed(f) ==
    [f EXCEPT !.orderedPoints = <<f.segments[1].p1>>,
              !.currentSeg = f.segments[1],
              !.segments = Tail(f.segments),
              !.loopWatchdog = 0,
              !.loopClosed = FALSE]

\* nextIdx !== -1 && minD < 5.0
chainAccepts(f, nextIdx) ==
    nextIdx # 0 /\ distanceSq(f.currentSeg.p2, f.segments[nextIdx].p1) < STITCH_TOL_SQ

\* distance(seg.p2, orderedPoints[0]) < 5.0
chainCloses(f, seg) == distanceSq(seg.p2, f.orderedPoints[1]) < STITCH_TOL_SQ

\* the accepting branch: push the open end, take segments[nextIdx] out of the
\* pool, close if its end meets the start, else loopWatchdog++
chainAccept(f, nextIdx) ==
    [f EXCEPT !.orderedPoints =
                  IF chainCloses(f, f.segments[nextIdx])
                  THEN Append(Append(f.orderedPoints, f.currentSeg.p2),
                              f.segments[nextIdx].p2)
                  ELSE Append(f.orderedPoints, f.currentSeg.p2),
              !.currentSeg = f.segments[nextIdx],
              !.segments = RemoveAt(f.segments, nextIdx),
              !.loopClosed = chainCloses(f, f.segments[nextIdx]),
              !.loopWatchdog = IF chainCloses(f, f.segments[nextIdx])
                               THEN f.loopWatchdog ELSE f.loopWatchdog + 1]

\* the else branch: close with the current segment if its end meets the start
chainReject(f) ==
    IF chainCloses(f, f.currentSeg)
    THEN [f EXCEPT !.orderedPoints = Append(f.orderedPoints, f.currentSeg.p2),
                   !.loopClosed = TRUE]
    ELSE f

\* one pass through the body of the inner loop
chainStep(f, nextIdx) ==
    IF chainAccepts(f, nextIdx) THEN chainAccept(f, nextIdx) ELSE chainReject(f)

\* the pass ended in a break
chainBreaks(f, nextIdx) ==
    ~chainAccepts(f, nextIdx) \/ chainCloses(f, f.segments[nextIdx])

\* an emission that does not ask whether the loop closed
loopEmitAlways(f) ==
    [f EXCEPT !.polygons = IF Len(f.orderedPoints) > 2
                           THEN Append(f.polygons, cleanPolygon(f.orderedPoints))
                           ELSE f.polygons,
              !.watchdog = f.watchdog + 1]

\* an emission that is content with two points
loopEmitShort(f) ==
    [f EXCEPT !.polygons = IF f.loopClosed /\ Len(f.orderedPoints) > 1
                           THEN Append(f.polygons, cleanPolygon(f.orderedPoints))
                           ELSE f.polygons,
              !.watchdog = f.watchdog + 1]

\* if (loopClosed && orderedPoints.length > 2) polygons.push(cleanPolygon(..));
\* watchdog++
loopEmit(f) ==
    [f EXCEPT !.polygons = IF f.loopClosed /\ Len(f.orderedPoints) > 2
                           THEN Append(f.polygons, cleanPolygon(f.orderedPoints))
                           ELSE f.polygons,
              !.watchdog = f.watchdog + 1]

\* a position in a running call: the statement reached, the locals, and the
\* value returned so far
Config == [pc |-> pc, frame |-> frame, result |-> result]

\* the position after the body of the inner loop, nextIdx the index the
\* search left
chainMove(c, nextIdx) ==
    CHOOSE r \in {[c EXCEPT !.pc = IF chainBreaks(c.frame, i) THEN "emit" ELSE "inner",
                            !.frame = chainStep(c.frame, i)] : i \in {nextIdx}} : TRUE

\* the position one loop test or one loop body after c
stitchNext(c) ==
    CASE c.pc = "outer" ->
            IF c.frame.segments # <<>> /\ c.frame.watchdog < WATCHDOG_MAX
            THEN [c EXCEPT !.pc = "inner", !.frame = chainSeed(c.frame)]
            ELSE [c EXCEPT !.pc = "idle", !.result = c.frame.polygons]
      [] c.pc = "inner" ->
            [c EXCEPT !.pc = IF c.frame.loopWatchdog < LOOP_WATCHDOG_MAX
                             THEN "chain" ELSE "emit"]
      [] c.pc = "chain" ->
            chainMove(c, nearestIdx(c.frame.currentSeg.p2, c.frame.segments))
      [] c.pc = "emit" ->
            [c EXCEPT !.pc = "outer", !.frame = loopEmit(c.frame)]
      [] OTHER -> c

\* a loop has just been left through its bound, or the call has returned
stitchAtBound(c) ==
    \/ c.pc = "idle"
    \/ c.pc = "emit" /\ c.frame.loopWatchdog >= LOOP_WATCHDOG_MAX
    \/ c.pc = "outer" /\ c.frame.watchdog >= WATCHDOG_MAX

RECURSIVE stitchRun(_, _)
\* the position at most n steps after c, stopping where stitchAtBound holds
stitchRun(c, n) ==
    IF n = 0 THEN c
    ELSE IF n = 1
    THEN CHOOSE r \in {IF stitchAtBound(d) THEN d ELSE stitchNext(d) : d \in {c}} : TRUE
    ELSE CHOOSE r \in {IF stitchAtBound(d) THEN d ELSE stitchRun(d, n - (n \div 2)) :
                           d \in {stitchRun(c, n \div 2)}} : TRUE

\* more steps than a call on segments can take: 4 for every extraction and 2
\* for every segment a chain accepts
runLimit(segments) == 4 * WATCHDOG_MAX + 2 * Len(segments) + 4

\* only a pool of more than 2000 segments can run a loop into its bound
CanTrip(segments) == Len(segments) > LOOP_WATCHDOG_MAX

MoveTo(c) ==
    /\ \E d \in {c} : pc' = d.pc /\ frame' = d.frame /\ result' = d.result
    /\ UNCHANGED <<args, steps, logs, calls, owner, history>>

\* if (segments.length === 0) return []; else the locals are set up
StitchEnter ==
    /\ pc = "stitchSegments"
    /\ IF args = <<>>
       THEN result' = <<>> /\ pc' = "idle" /\ frame' = [none |-> TRUE]
       ELSE frame' = stitchFrame(args) /\ pc' = "outer" /\ UNCHANGED result
    /\ UNCHANGED <<args, steps, logs, calls, owner, history>>

\* while (segments.length > 0 && watchdog < 5000): seed a chain, or return
StitchOuter == pc = "outer" /\ ~CanTrip(args) /\ MoveTo(stitchNext(Config))

\* while (loopWatchdog < 2000)
StitchInner == pc = "inner" /\ ~CanTrip(args) /\ MoveTo(stitchNext(Config))

\* the body of the inner loop: search, then accept or give up
StitchChain == pc = "chain" /\ ~CanTrip(args) /\ MoveTo(stitchNext(Config))

\* after the inner loop: emit the loop if it closed, count the extraction
StitchPush == pc = "emit" /\ ~CanTrip(args) /\ MoveTo(stitchNext(Config))

\* a call on a long pool, taken from one loop bound to the next or to its
\* return in one step
StitchJump ==
    /\ pc \in {"outer", "inner", "chain", "emit"}
    /\ CanTrip(args)
    /\ MoveTo(stitchRun(stitchNext(Config), runLimit(args)))

\* the end points of the small pools: two far apart, one exactly 5.0 from the
\* first, one 1.0 from the first
StitchPoints == {Pt(0, 0), Pt(U(10), 0), Pt(U(3), U(4)), Pt(U(1), 0)}

StitchSegs == {Seg(e[1], e[2]) : e \in {d \in StitchPoints \X StitchPoints : d[1] # d[2]}}

MaxPool == 3

\* a closed triangle far from every other segment of the long pools
FarTriangle(dx) ==
    <<Seg(Pt(dx, 20000), Pt(dx + 2000, 20000)),
      Seg(Pt(dx + 2000, 20000), Pt(dx, 22000)),
      Seg(Pt(dx, 22000), Pt(dx, 20000))>>

\* a seed of length 10.0 followed by n end-to-end segments of 0.005 leading
\* away from its start: a chain that accepts at every step and never closes
LongChain(n) ==
    <<Seg(Pt(0, 0), Pt(2000, 0))>>
        \o [i \in 1..n |-> Seg(Pt(1999 + i, 0), Pt(2000 + i, 0))]

\* n segments of length 10.0 on a grid of 71 columns, 5500.0 apart: no start
\* is within 5.0 of any end, nor within the 9999 the search starts from
Loners(n) ==
    [i \in 1..n |-> Seg(Pt((1 + ((i - 1) % 71)) * U(5500), ((i - 1) \div 71) * U(5500)),
                        Pt((1 + ((i - 1) % 71)) * U(5500),
                           ((i - 1) \div 71) * U(5500) + U(10)))]

\* a pool whose second chain runs into the inner bound
InnerGuardPool ==
    FarTriangle(0) \o LongChain(LOOP_WATCHDOG_MAX + 2) \o FarTriangle(6000)

\* a pool that needs more seed extractions than the outer bound allows
OuterGuardPool ==
    FarTriangle(0) \o Loners(WATCHDOG_MAX) \o FarTriangle(6000)

StitchPools == ListsOf(StitchSegs, MaxPool) \cup {InnerGuardPool, OuterGuardPool}

InitStitch ==
    /\ pc = "stitchSegments"
    /\ args \in StitchPools
    /\ result = [none |-> TRUE]
    /\ steps = <<>>
    /\ logs = <<>>
    /\ calls = 1
    /\ owner = [none |-> TRUE]
    /\ history = <<>>
    /\ frame = [none |-> TRUE]

NextStitch ==
    StitchEnter \/ StitchOuter \/ StitchInner \/ StitchChain \/ StitchPush \/ StitchJump

SpecStitch == InitStitch /\ [][NextStitch]_vars

\* the engine is synchronous: a call that has started runs on
FairSpecStitch == SpecStitch /\ WF_vars(NextStitch)

\* the stepwise run returns what the recursive definition computes
StitchAgrees == (pc = "idle" /\ Len(args) <= MaxPool + 1) => result = stitchSegments(args)

\* a chain is being built
InChain == pc \in {"inner", "chain", "emit"}

\* C13: stitchSegments terminates for every finite pool.  The extraction in
\* progress is at most the 5000th and the chain step about to run at most the
\* 2000th, so neither counter ever exceeds its bound; every pass through the outer or the inner loop that goes on to
\* another pass has taken at least one segment out of the pool; and every
\* call that has started returns.
C13_Terminates ==
    /\ [](InChain => frame.watchdog < WATCHDOG_MAX)
    /\ [](pc = "chain" => frame.loopWatchdog < LOOP_WATCHDOG_MAX)
    /\ [](InChain \/ pc = "outer"
            => frame.watchdog <= WATCHDOG_MAX /\ frame.loopWatchdog <= LOOP_WATCHDOG_MAX)
    /\ [][((pc = "outer" \/ pc = "chain") /\ pc' = "inner")
            => Len(frame'.segments) < Len(frame.segments)]_vars
    /\ (pc = "stitchSegments" ~> pc = "idle")

\* a call on a pool that can close no loop has returned
C13_Witness ==
    /\ pc = "idle"
    /\ Len(args) = MaxPool
    /\ result = <<>>
    /\ frame.segments = <<>>
    /\ frame.watchdog > 1

\* the points of a point list
PointsIn(poly) == {poly[i] : i \in 1..Len(poly)}

\* s is an initial part of t
IsPrefix(s, t) == Len(s) <= Len(t) /\ SubSeq(t, 1, Len(s)) = s

\* C18: every island emitted by stitchSegments has at least 3 distinct
\* points after sanitization.
C18_IslandsHaveThreePoints ==
    pc \in {"outer", "inner", "chain", "emit"}
        => \A j \in 1..Len(frame.polygons) : Cardinality(PointsIn(frame.polygons[j])) >= 3

\* the inner loop was left through its bound, the chain still open
InnerTripped ==
    pc = "emit" /\ frame.loopWatchdog >= LOOP_WATCHDOG_MAX /\ ~frame.loopClosed

\* the outer loop was left through its bound, segments still in the pool
OuterTripped ==
    pc = "outer" /\ frame.watchdog >= WATCHDOG_MAX /\ frame.segments # <<>>

\* C19: when a loop bound of stitchSegments trips, the chain under
\* construction is not emitted, neither as it stands nor sanitized, and the
\* islands closed before stay, in order, among the islands of the call; the
\* call returns the islands it has closed, and after the outer bound exactly
\* those closed so far.
C19_GuardDiscards ==
    /\ [][InnerTripped
            => /\ IsPrefix(frame.polygons, frame'.polygons)
               /\ \A j \in 1..Len(frame'.polygons) :
                     /\ frame'.polygons[j] # frame.orderedPoints
                     /\ frame'.polygons[j] # cleanPolygon(frame.orderedPoints)
                     /\ PointsIn(frame'.polygons[j]) \cap PointsIn(frame.orderedPoints) = {}]_vars
    /\ [][OuterTripped => pc' = "idle" /\ result' = frame.polygons]_vars
    /\ [][(pc # "idle" /\ pc' = "idle" /\ args # <<>>) => result' = frame'.polygons]_vars

\* a chain has run into the inner bound after an island was closed, with
\* segments still in the pool
C19_Witness ==
    /\ InnerTripped
    /\ Len(frame.polygons) = 1
    /\ Len(frame.orderedPoints) > LOOP_WATCHDOG_MAX
    /\ frame.segments # <<>>

\* the outer bound tripped and the call returned the island closed before
C19_OuterReturned ==
    /\ pc = "idle"
    /\ CanTrip(args)
    /\ frame.watchdog = WATCHDOG_MAX
    /\ frame.segments # <<>>
    /\ Len(result) = 1

\* segments[i] is the first of the segments whose start is nearest to tail
firstNearest(tail, segments, i) ==
    \A k \in 1..Len(segments) :
        /\ distanceSq(tail, segments[i].p1) <= distanceSq(tail, segments[k].p1)
        /\ distanceSq(tail, segments[i].p1) = distanceSq(tail, segments[k].p1) => i <= k

\* segments[i] is the segment a chain step takes: the first nearest one, its
\* start less than 5.0 from tail
taken(tail, segments, i) ==
    firstNearest(tail, segments, i) /\ distanceSq(tail, segments[i].p1) < STITCH_TOL_SQ

\* C20: a chain step takes the pool segment whose start is nearest to the open
\* end, the first in pool order among equally near ones, if that start is
\* less than 5.0 from the open end; the loop is closed exactly when the end of
\* the taken segment is less than 5.0 from the loop's start, otherwise the
\* chain goes on.  If no segment is taken the chain ends with the pool
\* untouched, closed exactly when the open end is less than 5.0 from the start.
C20_ChainStep ==
    [][pc = "chain" =>
        /\ \A i \in 1..Len(frame.segments) :
              taken(frame.currentSeg.p2, frame.segments, i)
                => /\ frame'.currentSeg = frame.segments[i]
                   /\ frame'.segments = RemoveAt(frame.segments, i)
                   /\ frame'.loopClosed =
                          (distanceSq(frame.segments[i].p2, frame.orderedPoints[1])
                              < STITCH_TOL_SQ)
                   /\ pc' = IF frame'.loopClosed THEN "emit" ELSE "inner"
        /\ (\A i \in 1..Len(frame.segments) :
                ~taken(frame.currentSeg.p2, frame.segments, i))
              => /\ pc' = "emit"
                 /\ frame'.segments = frame.segments
                 /\ frame'.currentSeg = frame.currentSeg
                 /\ frame'.loopClosed =
                        (distanceSq(frame.currentSeg.p2, frame.orderedPoints[1])
                            < STITCH_TOL_SQ)]_vars

\* a step has taken one of two segments that start at the same point, the
\* other is still in the pool
C20_Witness ==
    /\ pc = "inner"
    /\ frame.loopWatchdog = 1
    /\ \E k \in 1..Len(frame.segments) :
          /\ frame.segments[k].p1 = frame.currentSeg.p1
          /\ frame.segments[k] # frame.currentSeg

----------------------------------------------------------------------------
(* Repeated calls: the caller keeps what every call was given and returned *)

\* a rectangle, a polygon stored with negative signed area that crosses it,
\* and a polygon whose conversion makes the call raise
RepeatEntities ==
    { Sq(0, 0, 10, 10),
      Polygon(<<Pt(U(5), U(5)), Pt(U(15), U(5)), Pt(U(15), U(15)), Pt(U(5), U(15))>>,
              <<HoleB>>),
      Polygon(<<Pt(0, 0), Undefined, Pt(U(10), U(10)), Pt(0, U(10))>>, <<HoleA>>) }

\* number of calls one behaviour makes
MaxRepeat == 3

\* the caller starts op on entities
RepeatCall(op, entities) ==
    /\ pc = "idle"
    /\ Len(history) < MaxRepeat
    /\ pc' = op
    /\ args' = entities
    /\ calls' = calls + 1
    /\ result' = [none |-> TRUE]
    /\ steps' = <<>>
    /\ owner' = [none |-> TRUE]
    /\ UNCHANGED <<logs, history, frame>>

\* the body of booleanSubtract, to its return
RepeatSubtract ==
    /\ pc = "booleanSubtract"
    /\ ReturnSubtract(args[1], args[2], booleanSubtract(args[1], args[2]))
    /\ history' = Append(history, [op |-> pc, args |-> args, ret |-> result'])
    /\ pc' = "idle"
    /\ UNCHANGED <<calls, frame>>

\* the body of booleanUnion, to its return
RepeatUnion ==
    /\ pc = "booleanUnion"
    /\ ReturnUnion(args, booleanUnion(args))
    /\ history' = Append(history, [op |-> pc, args |-> args, ret |-> result'])
    /\ pc' = "idle"
    /\ UNCHANGED <<calls, frame>>

NextRepeat ==
    \/ \E subject \in RepeatEntities, clip \in RepeatEntities :
          RepeatCall("booleanSubtract", <<subject, clip>>)
    \/ \E first \in RepeatEntities, second \in RepeatEntities :
          RepeatCall("booleanUnion", <<first, second>>)
    \/ RepeatSubtract
    \/ RepeatUnion

SpecRepeat == Init /\ [][NextRepeat]_vars

C15_InputsUntouched ==
    [][(pc = "booleanSubtract" \/ pc = "booleanUnion") => args' = args]_vars

\* a subtraction has returned whose subject is a polygon entity stored with
\* negative signed area, so that the call reversed its boundary
C15_Witness ==
    /\ ReturnedSubtract
    /\ args[1].type = "polygon"
    /\ args[1].holes # <<>>
    /\ "clipInside" \in StageSet
    /\ cleanPolygonThrows(args[1].points) = FALSE
    /\ getSignedArea(cleanPolygon(args[1].points)) < 0

\* a union has returned whose first entity is a polygon of fewer than 3
\* points: the accumulator was the entity's own array
C15_UnionShared ==
    /\ ReturnedUnion
    /\ Len(args) >= 2
    /\ args[1].type = "polygon"
    /\ Len(args[1].points) < 3
    /\ owner.points = PointsOf(1)

\* C16: every result is freshly owned.  No island array and no hole-list
\* array of a result of booleanSubtract, and neither the points array nor the
\* hole-list array of a result of booleanUnion, is the points array or the
\* holes array of an input entity.
C16_FreshlyOwned ==
    /\ ReturnedSubtract
        => /\ owner.holes = Fresh
           /\ \A j \in 1..Len(owner.polys) : owner.polys[j] = Fresh
    /\ ReturnedUnion => owner.points = Fresh /\ owner.holes = Fresh

----------------------------------------------------------------------------
(* stitchSegments on the edges of one polygon *)

\* the directed edges of the closed outline poly, in outline order
polygonEdges(poly) == [i \in 1..Len(poly) |-> Seg(poly[i], poly[(i % Len(poly)) + 1])]

\* every order of the elements of s
Orders(s) ==
    {[i \in 1..Len(s) |-> s[q[i]]] :
        q \in {f \in [1..Len(s) -> 1..Len(s)] :
                  \A i \in 1..Len(s) : \A j \in 1..Len(s) : f[i] = f[j] => i = j}}

\* simple outlines: a 10 x 10 square, a 1 x 1 square, a 10 x 1 rectangle, a
\* large and a small triangle
RoundTripOutlines ==
    { <<Pt(0, 0), Pt(U(10), 0), Pt(U(10), U(10)), Pt(0, U(10))>>,
      <<Pt(0, 0), Pt(U(1), 0), Pt(U(1), U(1)), Pt(0, U(1))>>,
      <<Pt(0, 0), Pt(U(10), 0), Pt(U(10), U(1)), Pt(0, U(1))>>,
      <<Pt(0, 0), Pt(U(10), 0), Pt(0, U(10))>>,
      <<Pt(0, 0), Pt(U(1), 0), Pt(0, U(1))>> }

RoundTripPools == UNION {Orders(polygonEdges(poly)) : poly \in RoundTripOutlines}

InitRoundTrip ==
    /\ pc = "stitchSegments"
    /\ args \in RoundTripPools
    /\ result = [none |-> TRUE]
    /\ steps = <<>>
    /\ logs = <<>>
    /\ calls = 1
    /\ owner = [none |-> TRUE]
    /\ history = <<>>
    /\ frame = [none |-> TRUE]

NextRoundTrip == StitchEnter \/ StitchOuter \/ StitchInner \/ StitchChain \/ StitchPush

SpecRoundTrip == InitRoundTrip /\ [][NextRoundTrip]_vars

\* the elements of a list
ElementsOf(s) == {s[i] : i \in 1..Len(s)}

\* C21: stitching round trip.  Called with the directed edges of one simple
\* closed polygon, in any order, stitchSegments returns exactly one island,
\* and the island walks exactly those edges: it has as many vertices as the
\* polygon and its directed edges are the edges of the polygon.
C21_RoundTrip ==
    pc = "idle"
        => /\ Len(result) = 1
           /\ Len(result[1]) = Len(args)
           /\ ElementsOf(polygonEdges(result[1])) = ElementsOf(args)

----------------------------------------------------------------------------
(* stitchSegments: what becomes of the segments of the pool *)

\* the end points of the segments of a pool
EndPoints(segments) ==
    {segments[i].p1 : i \in 1..Len(segments)} \cup {segments[i].p2 : i \in 1..Len(segments)}

\* the least number of segments a chain has taken when it is emitted as poly:
\* the seed and one more, and one for every point after the first
islandNeeds(poly) == IF Len(poly) - 1 > 2 THEN Len(poly) - 1 ELSE 2

RECURSIVE islandsNeed(_)
\* the segments the islands of polygons have taken, no segment counted twice
islandsNeed(polygons) ==
    IF polygons = <<>> THEN 0
    ELSE islandNeeds(Head(polygons)) + islandsNeed(Tail(polygons))

\* the segments the chain under construction has taken: one for every point
\* pushed, the closing point apart
chainHolds(f) == Len(f.orderedPoints) - (IF f.loopClosed THEN 1 ELSE 0)

StitchRunning == pc \in {"outer", "inner", "chain", "emit"}

\* C22: stitchSegments consumes the pool destructively and conservatively.
\* A step takes at most one segment out of the pool and puts none back, so a
\* segment leaves the pool at most once; the segments that have left the pool
\* are enough to give every emitted island and the chain under construction
\* segments of their own, so no segment serves two islands; every vertex of
\* every emitted island is an end point of an input segment; and there are
\* at most half as many islands as input segments.
C22_Conservative ==
    /\ [](StitchRunning
            => /\ islandsNeed(frame.polygons)
                      + (IF pc = "outer" THEN 0 ELSE chainHolds(frame))
                    <= Len(args) - Len(frame.segments)
               /\ \A j \in 1..Len(frame.polygons) :
                      PointsIn(frame.polygons[j]) \subseteq EndPoints(args)
               /\ 2 * Len(frame.polygons) <= Len(args))
    /\ [](pc = "idle"
            => /\ 2 * Len(result) <= Len(args)
               /\ \A j \in 1..Len(result) : PointsIn(result[j]) \subseteq EndPoints(args))
    /\ [][pc = "stitchSegments" /\ args # <<>> => frame'.segments = args]_vars
    /\ [][StitchRunning /\ ~CanTrip(args)
            => \/ frame'.segments = frame.segments
               \/ \E i \in 1..Len(frame.segments) :
                      frame'.segments = RemoveAt(frame.segments, i)]_vars
    /\ [][StitchRunning /\ CanTrip(args)
            => /\ Len(frame'.segments) <= Len(frame.segments)
               /\ ElementsOf(frame'.segments) \subseteq ElementsOf(frame.segments)]_vars

\* a call on three segments has returned one island and has thrown the third
\* segment away
C22_Witness ==
    /\ pc = "idle"
    /\ Len(args) > 2
    /\ Len(result) = 1
    /\ frame.watchdog = 2
    /\ frame.segments = <<>>

----------------------------------------------------------------------------
(* injectIntersections, one subject edge per step.  args holds the two     *)
(* outlines, frame the index i of the edge and the list newSubject         *)

\* newSubject.push(s1) and the pushes of the sorted intersections of edge i
injectEdge(subject, clip, i) ==
    <<subject[i]>>
        \o innerPoints(edgeIntersections(subject[i], subject[(i % Len(subject)) + 1],
                                         clip, Len(clip)),
                       subject[i], subject[(i % Len(subject)) + 1])

\* const newSubject = []; i = 0
InjectEnter ==
    /\ pc = "injectIntersections"
    /\ pc' = "injectEdge"
    /\ frame' = [i |-> 1, newSubject |-> <<>>]
    /\ UNCHANGED <<args, result, steps, logs, calls, owner, history>>

\* one pass through the body of the loop over the subject edges
InjectEdge ==
    /\ pc = "injectEdge"
    /\ frame.i <= Len(args.subject)
    /\ frame' = [i |-> frame.i + 1,
                 newSubject |-> frame.newSubject
                                    \o injectEdge(args.subject, args.clip, frame.i)]
    /\ UNCHANGED <<pc, args, result, steps, logs, calls, owner, history>>

\* return newSubject
InjectReturn ==
    /\ pc = "injectEdge"
    /\ frame.i > Len(args.subject)
    /\ pc' = "idle"
    /\ result' = frame.newSubject
    /\ UNCHANGED <<args, frame, steps, logs, calls, owner, history>>

\* the outline of a rectangle, as the engine converts it
SqPoints(x, y, w, h) == convertToPoints(Sq(x, y, w, h))

\* outlines that cross, touch at a corner, touch with a vertex on an edge,
\* share an edge, pass through one another, or are apart
InjectPolys ==
    { SqPoints(0, 0, 10, 10),
      SqPoints(10, 10, 10, 10),
      SqPoints(5, 5, 10, 10),
      SqPoints(10, 0, 10, 10),
      SqPoints(30, 0, 10, 10),
      SqPoints(-5, 4, 20, 2),
      SqPoints(4, -5, 2, 20),
      <<Pt(U(10), U(5)), Pt(U(20), 0), Pt(U(20), U(10))>>,
      <<Pt(U(5), U(5)), Pt(U(20), 0), Pt(U(20), U(10))>>,
      <<Pt(0, 0), Pt(U(10), 0), Pt(0, U(10))>>,
      <<Pt(U(3), U(10)), Pt(U(7), U(10)), Pt(U(5), U(14))>> }

InitInject ==
    /\ pc = "injectIntersections"
    /\ args \in [subject : InjectPolys, clip : InjectPolys]
    /\ result = [none |-> TRUE]
    /\ steps = <<>>
    /\ logs = <<>>
    /\ calls = 1
    /\ owner = [none |-> TRUE]
    /\ history = <<>>
    /\ frame = [none |-> TRUE]

NextInject == InjectEnter \/ InjectEdge \/ InjectReturn

SpecInject == InitInject /\ [][NextInject]_vars

\* the edge by edge run returns what injectIntersections returns
InjectAgrees ==
    (pc = "idle") => result = injectIntersections(args.subject, args.clip)

\* the determinant of the edges p1-p2 and p3-p4
edgeDet(p1, p2, p3, p4) ==
    (p4.y - p3.y) * (p2.x - p1.x) - (p4.x - p3.x) * (p2.y - p1.y)

\* the parameter of the intersection along p1-p2, times the determinant
edgeUa(p1, p2, p3, p4) ==
    (p4.x - p3.x) * (p1.y - p3.y) - (p4.y - p3.y) * (p1.x - p3.x)

\* the parameter of the intersection along p3-p4, times the determinant
edgeUb(p1, p2, p3, p4) ==
    (p2.x - p1.x) * (p1.y - p3.y) - (p2.y - p1.y) * (p1.x - p3.x)

\* n / d > 1e-4 for d > 0, no product leaving 32 bits
AboveMargin(n, d) == n > 0 /\ (n > 200000 \/ 10000 * n > d)

\* n / d strictly inside (1e-4, 1 - 1e-4) for any d # 0
StrictlyInside(n, d) ==
    IF d > 0 THEN AboveMargin(n, d) /\ AboveMargin(d - n, d)
    ELSE AboveMargin(-n, -d) /\ AboveMargin(n - d, -d)

\* the pair of edges is not parallel and both parameters are strictly inside
Qualifies(s1, s2, c1, c2) ==
    /\ edgeDet(s1, s2, c1, c2) # 0
    /\ StrictlyInside(edgeUa(s1, s2, c1, c2), edgeDet(s1, s2, c1, c2))
    /\ StrictlyInside(edgeUb(s1, s2, c1, c2), edgeDet(s1, s2, c1, c2))

\* the clip edges that qualify against edge i of subject
qualifying(subject, clip, i) ==
    {j \in 1..Len(clip) :
        Qualifies(subject[i], subject[(i % Len(subject)) + 1],
                  clip[j], clip[(j % Len(clip)) + 1])}

\* twice the signed area of the triangle a, b, c
orient(a, b, c) == (b.x - a.x) * (c.y - a.y) - (b.y - a.y) * (c.x - a.x)

sign(n) == IF n < 0 THEN -1 ELSE IF n = 0 THEN 0 ELSE 1

\* the edges a-b and c-d cross at a point inside both
properCross(a, b, c, d) ==
    /\ sign(orient(a, b, c)) * sign(orient(a, b, d)) < 0
    /\ sign(orient(c, d, a)) * sign(orient(c, d, b)) < 0

\* the point p lies on the closed edge a-b
onEdge(p, a, b) ==
    /\ orient(a, b, p) = 0
    /\ Min2(a.x, b.x) <= p.x /\ p.x <= Max2(a.x, b.x)
    /\ Min2(a.y, b.y) <= p.y /\ p.y <= Max2(a.y, b.y)

\* a vertex of P lies on an edge of Q
vertexOn(P, Q) ==
    \E i \in 1..Len(P) : \E j \in 1..Len(Q) : onEdge(P[i], Q[j], Q[(j % Len(Q)) + 1])

\* no edge of P crosses an edge of Q
noEdgeCrossing(P, Q) ==
    \A i \in 1..Len(P) : \A j \in 1..Len(Q) :
        ~properCross(P[i], P[(i % Len(P)) + 1], Q[j], Q[(j % Len(Q)) + 1])

\* the outlines touch at a vertex of one of them and nowhere cross
merelyTouch(P, Q) == (vertexOn(P, Q) \/ vertexOn(Q, P)) /\ noEdgeCrossing(P, Q)

\* C23: injectIntersections inserts a point for a pair of a subject edge and
\* a clip edge only if the pair is not parallel and both intersection
\* parameters lie strictly inside (1e-4, 1 - 1e-4): an edge receives no more
\* points than clip edges qualify against it, and none if none qualifies.
\* When the two outlines merely touch at a vertex, no point is injected: the
\* call returns the subject's own vertex list.
C23_InjectsOnlyInside ==
    /\ [][pc = "injectEdge" /\ frame.i <= Len(args.subject)
            => Len(frame'.newSubject) - Len(frame.newSubject) - 1
                   <= Cardinality(qualifying(args.subject, args.clip, frame.i))]_vars
    /\ [](pc = "idle" /\ merelyTouch(args.subject, args.clip)
            => result = args.subject)

\* a call has returned for a clip that has a vertex strictly inside an edge
\* of the subject and crosses nothing
C23_Witness ==
    /\ pc = "idle"
    /\ merelyTouch(args.subject, args.clip)
    /\ \E i \in 1..Len(args.subject) : \E j \in 1..Len(args.clip) :
          /\ onEdge(args.clip[j], args.subject[i],
                    args.subject[(i % Len(args.subject)) + 1])
          /\ args.clip[j] # args.subject[i]
          /\ args.clip[j] # args.subject[(i % Len(args.subject)) + 1]
    /\ result = args.subject

RECURSIVE IsSubsequence(_, _)
\* the elements of s appear in t in the order of s
IsSubsequence(s, t) ==
    IF s = <<>> THEN TRUE
    ELSE IF t = <<>> THEN FALSE
    ELSE IF Head(s) = Head(t) THEN IsSubsequence(Tail(s), Tail(t))
    ELSE IsSubsequence(s, Tail(t))

\* p is within the bounding box of the edge a-b
withinEdge(p, a, b) ==
    /\ Min2(a.x, b.x) <= p.x /\ p.x <= Max2(a.x, b.x)
    /\ Min2(a.y, b.y) <= p.y /\ p.y <= Max2(a.y, b.y)

\* C24: injectIntersections preserves the subject boundary.  The pass for
\* edge i appends the edge's start vertex and then the points injected for
\* that edge, all of them on the stretch between the edge's start and end and
\* in order of increasing distance from the start; nothing already in the
\* list is changed, so the returned list holds the subject's vertices in their
\* original order; the clip outline is never written.
C24_BoundaryPreserved ==
    /\ [][pc = "injectEdge" /\ frame.i <= Len(args.subject)
            => /\ IsPrefix(frame.newSubject, frame'.newSubject)
               /\ Len(frame'.newSubject) > Len(frame.newSubject)
               /\ frame'.newSubject[Len(frame.newSubject) + 1] = args.subject[frame.i]
               /\ \A k \in (Len(frame.newSubject) + 2)..Len(frame'.newSubject) :
                     /\ withinEdge(frame'.newSubject[k], args.subject[frame.i],
                                   args.subject[(frame.i % Len(args.subject)) + 1])
                     /\ distanceSq(args.subject[frame.i], frame'.newSubject[k - 1])
                           <= distanceSq(args.subject[frame.i], frame'.newSubject[k])]_vars
    /\ [](pc = "idle"
            => /\ IsSubsequence(args.subject, result)
               /\ Len(result) >= Len(args.subject))
    /\ [][args'.clip = args.clip /\ args'.subject = args.subject]_vars

\* a call has returned a list in which two injected points follow one another
C24_Witness ==
    /\ pc = "idle"
    /\ \E k \in 1..(Len(result) - 1) :
          /\ result[k] \notin PointsIn(args.subject)
          /\ result[k + 1] \notin PointsIn(args.subject)

----------------------------------------------------------------------------
(* booleanSubtract: the general case *)

\* the call came back through the return after the stitcher
GeneralCase == ReturnedSubtract /\ steps # <<>> /\ steps[Len(steps)] = "stitch"

\* the edges of poly whose midpoint is not inside other, as they run
outsideEdges(poly, other) ==
    FilterIdx(polygonEdges(poly),
              {i \in 1..Len(poly) :
                  ~isMidInPoly(poly[i], poly[(i % Len(poly)) + 1], other)}, 1)

\* the edges of poly whose midpoint is inside other, as they run
insideEdges(poly, other) ==
    FilterIdx(polygonEdges(poly),
              {i \in 1..Len(poly) :
                  isMidInPoly(poly[i], poly[(i % Len(poly)) + 1], other)}, 1)

\* every segment of s turned round
reversedEdges(s) == [i \in 1..Len(s) |-> Seg(s[i].p2, s[i].p1)]

\* the pool made of the outlines with their intersections, sWithInts and
\* cWithInts
poolOf(sWithInts, cWithInts, sPoly, cPoly) ==
    outsideEdges(sWithInts, cPoly) \o reversedEdges(insideEdges(cWithInts, sPoly))

\* the prepared operands ops give the islands polys through that pool
generalThrough(ops, polys) ==
    /\ subtractSegments(ops.sPoly, ops.cPoly)
          = poolOf(cleanPolygon(injectIntersections(ops.sPoly, ops.cPoly)),
                   cleanPolygon(injectIntersections(ops.cPoly, ops.sPoly)),
                   ops.sPoly, ops.cPoly)
    /\ polys = stitchSegments(
                   poolOf(cleanPolygon(injectIntersections(ops.sPoly, ops.cPoly)),
                          cleanPolygon(injectIntersections(ops.cPoly, ops.sPoly)),
                          ops.sPoly, ops.cPoly))

\* C25: in the general case of booleanSubtract the pool handed to the
\* stitcher is the edges of the subject with its intersections whose midpoint
\* is not inside clip, in their direction, followed by the edges of the clip
\* with its intersections whose midpoint is inside subject, reversed; the
\* islands returned are what the stitcher makes of that pool, and the hole
\* list returned equals the hole list of the subject.
C25_GeneralPool ==
    GeneralCase
        => /\ generalThrough(prepareBooleanOperands(args[1], args[2]), result.polys)
           /\ result.holes = holesOf(args[1])

\* a general case on a subject with a hole has returned an island
C25_Witness ==
    /\ GeneralCase
    /\ holesOf(args[1]) # <<>>
    /\ result.polys # <<>>

\* C26: a call of booleanSubtract that did not fail returns no island only
\* if every vertex of the subject is inside clip.
C26_ConsumedOnlyInside ==
    (ReturnedSubtract /\ steps # <<>> /\ steps[Len(steps)] # "catch"
        /\ result.polys = <<>>)
        => allInside(convertToPoints(args[1]), convertToPoints(args[2]))

\* the call came back through the bounding box reject
Rejected == ReturnedSubtract /\ steps # <<>> /\ steps[Len(steps)] = "bounds"

\* C27: booleanSubtract takes the reject path only when the bounding boxes
\* of the converted subject and the converted clip do not overlap, whatever
\* the kinds of the two shapes.
C27_RejectSound ==
    Rejected
        => ~doRectsIntersect(BoundsOf(convertToPoints(args[1])),
                             BoundsOf(convertToPoints(args[2])))

----------------------------------------------------------------------------
(* booleanUnion on two entities: one fold step *)

\* large squares far apart and 2.0 apart, a crossing square, a 1 x 1 square,
\* the wall of a line, an outline with a hole and a small triangle with a hole
FoldEntities ==
    { Sq(0, 0, 10, 10), Sq(30, 0, 10, 10), Sq(12, 0, 10, 10), Sq(5, 5, 10, 10),
      Sq(30, 30, 1, 1),
      Line(U(30), U(-20), U(40), U(-20)),
      Polygon(OutlineA, <<HoleA>>),
      Polygon(<<Pt(U(-20), U(-20)), Pt(U(-17), U(-20)), Pt(U(-20), U(-16))>>, <<HoleB>>) }

NextFold ==
    \/ \E a \in FoldEntities, b \in FoldEntities : CallUnion(<<a, b>>)
    \/ RunUnion

SpecFold == Init /\ [][NextFold]_vars

\* no vertex of P is inside Q
noVertexInside(P, Q) == \A i \in 1..Len(P) : ~isPointInPoly(P[i], Q)

\* the outlines have no point in common and neither lies inside the other
disjointOutlines(P, Q) ==
    /\ noEdgeCrossing(P, Q)
    /\ ~vertexOn(P, Q) /\ ~vertexOn(Q, P)
    /\ noVertexInside(P, Q) /\ noVertexInside(Q, P)

\* the fold step st on disjoint outlines went as the claim says
foldKeeps(st) ==
    /\ Len(stitchSegments(unionSegments(st.cur, st.next))) = 2
    /\ st.how = "stitched"
    /\ SameLoop(st.poly, st.cur)
    /\ PointsIn(st.poly) \cap PointsIn(st.next) = {}
    /\ st.holes = st.curHoles

\* C28: in a fold step of booleanUnion on two disjoint polygons the stitcher
\* returns one island for each polygon and the first is adopted: the
\* accumulator after the step is the accumulator before it up to rotation,
\* it holds no vertex of the other polygon, and the hole list is unchanged.
C28_DisjointFold ==
    ReturnedUnion
        => \A i \in 1..Len(steps) :
              (Len(steps[i].cur) >= 3 /\ disjointOutlines(steps[i].cur, steps[i].next))
                  => foldKeeps(steps[i])

----------------------------------------------------------------------------
(* The history reducer of the application.  history is the reducer's state, *)
(* args the action last dispatched, calls the number of dispatches          *)

\* a property of an entity: its key and its value, properties in the order
\* the object holds them
Field(k, v) == [key |-> k, value |-> v]

Number(n) == [t |-> "number", n |-> n]

NaN == [t |-> "NaN", n |-> 0]

Infinity == [t |-> "Infinity", n |-> 0]

Boolean(b) == [t |-> "boolean", n |-> IF b THEN 1 ELSE 0]

\* JSON.stringify of a value: NaN and Infinity are written as null
stringifyValue(v) == IF v.t \in {"NaN", "Infinity"} THEN [t |-> "null", n |-> 0] ELSE v

\* JSON.stringify of an object: its properties in their order
stringifyEntity(e) ==
    [i \in 1..Len(e) |-> Field(e[i].key, stringifyValue(e[i].value))]

\* JSON.stringify of an entity list, as the sequence of what is written
stringify(entities) == [i \in 1..Len(entities) |-> stringifyEntity(entities[i])]

HistoryState(past, present, future) ==
    [past |-> past, present |-> present, future |-> future]

\* a PUSH_STATE that keeps the future
pushStateKeepsFuture(state, payload) ==
    IF stringify(state.present) = stringify(payload) THEN state
    ELSE HistoryState(Append(state.past, state.present), payload, state.future)

\* case 'PUSH_STATE'
pushState(state, payload) ==
    IF stringify(state.present) = stringify(payload) THEN state
    ELSE HistoryState(Append(state.past, state.present), payload, <<>>)

\* an UNDO that forgets the state it leaves
undoForgetful(state) ==
    IF Len(state.past) = 0 THEN state
    ELSE HistoryState(SubSeq(state.past, 1, Len(state.past) - 1),
                      state.past[Len(state.past)], state.future)

\* case 'UNDO'
undo(state) ==
    IF Len(state.past) = 0 THEN state
    ELSE HistoryState(SubSeq(state.past, 1, Len(state.past) - 1),
                      state.past[Len(state.past)],
                      <<state.present>> \o state.future)

\* case 'REDO'
redo(state) ==
    IF Len(state.future) = 0 THEN state
    ELSE HistoryState(Append(state.past, state.present),
                      state.future[1], Tail(state.future))

historyReducer(state, action) ==
    CASE action.type = "PUSH_STATE" -> pushState(state, action.payload)
      [] action.type = "UNDO" -> undo(state)
      [] action.type = "REDO" -> redo(state)
      [] action.type = "LOAD" -> HistoryState(<<>>, action.payload, <<>>)
      [] OTHER -> state

\* number of actions one behaviour dispatches
MaxDispatches == 4

\* entity lists: empty, one entity, the same entity with its properties in
\* the other order, an entity with x NaN, one with x Infinity, two entities
HistoryPayloads ==
    { <<>>,
      << <<Field("x", Number(1)), Field("selected", Boolean(TRUE))>> >>,
      << <<Field("selected", Boolean(TRUE)), Field("x", Number(1))>> >>,
      << <<Field("x", NaN)>> >>,
      << <<Field("x", Infinity)>> >>,
      << <<Field("x", Number(1)), Field("selected", Boolean(FALSE))>>,
         <<Field("x", Number(2))>> >> }

HistoryAction(type, payload) == [type |-> type, payload |-> payload]

\* useReducer(historyReducer, { past: [], present: [], future: [] }); no
\* action has been dispatched
InitHistory ==
    /\ pc = "idle"
    /\ args = HistoryAction("none", <<>>)
    /\ result = [none |-> TRUE]
    /\ steps = <<>>
    /\ logs = <<>>
    /\ calls = 0
    /\ owner = [none |-> TRUE]
    /\ history = HistoryState(<<>>, <<>>, <<>>)
    /\ frame = [none |-> TRUE]

\* dispatch(action)
Dispatch(action) ==
    /\ calls < MaxDispatches
    /\ history' = historyReducer(history, action)
    /\ args' = action
    /\ calls' = calls + 1
    /\ UNCHANGED <<pc, result, steps, logs, owner, frame>>

PushState == \E payload \in HistoryPayloads : Dispatch(HistoryAction("PUSH_STATE", payload))

Undo == Dispatch(HistoryAction("UNDO", <<>>))

Redo == Dispatch(HistoryAction("REDO", <<>>))

Load == \E payload \in HistoryPayloads : Dispatch(HistoryAction("LOAD", payload))

NextHistory == PushState \/ Undo \/ Redo \/ Load

SpecHistory == InitHistory /\ [][NextHistory]_vars

\* the step dispatches an action of the given type
Dispatches(type) == calls' = calls + 1 /\ args'.type = type

\* the number of entity lists a history state stores
stored(state) == Len(state.past) + 1 + Len(state.future)

\* C29: undo and redo of the history reducer are inverse and conserve the
\* history.  In every state reached by PUSH_STATE, UNDO, REDO and LOAD
\* actions, if past is not empty then UNDO followed by REDO gives back the
\* same past, present and future; a step that dispatches UNDO or REDO leaves
\* the number of stored states (past + present + future) unchanged; UNDO with
\* empty past and REDO with empty future leave the state unchanged.
C29_UndoRedo ==
    /\ [](history.past # <<>>
            => historyReducer(historyReducer(history, HistoryAction("UNDO", <<>>)),
                              HistoryAction("REDO", <<>>)) = history)
    /\ [][(Dispatches("UNDO") \/ Dispatches("REDO"))
            => stored(history') = stored(history)]_vars
    /\ [][Dispatches("UNDO") /\ history.past = <<>> => history' = history]_vars
    /\ [][Dispatches("REDO") /\ history.future = <<>> => history' = history]_vars
    /\ [][Dispatches("REDO") /\ args.type = "UNDO" /\ history.future # <<>>
            => /\ history'.present = history.future[1]
               /\ history'.past = Append(history.past, history.present)
               /\ history'.future = Tail(history.future)]_vars

\* an UNDO has acted and left states on both sides of the present: from
\* here UNDO then REDO has something to take and to give back
C29_Witness ==
    /\ args.type = "UNDO"
    /\ history.past # <<>>
    /\ history.future # <<>>
    /\ history.present # <<>>

\* C30 as stated: PUSH_STATE with a payload different from the present
\* appends the old present to past, makes the payload the present and empties
\* future; with a payload equal to the present it leaves the state unchanged;
\* LOAD empties past and future.
C30_PushAsStated ==
    /\ [][Dispatches("PUSH_STATE")
            => history' = IF args'.payload # history.present
                          THEN HistoryState(Append(history.past, history.present),
                                            args'.payload, <<>>)
                          ELSE history]_vars
    /\ [][Dispatches("LOAD") => history'.past = <<>> /\ history'.future = <<>>]_vars

\* C30: PUSH_STATE with a payload whose JSON text differs from that of the
\* present appends the old present to past, makes the payload the present and
\* empties future; with a payload whose JSON text equals that of the present
\* it leaves past, present and future unchanged; LOAD makes the payload the
\* present and empties past and future.
C30_Push ==
    /\ [][Dispatches("PUSH_STATE")
            => history' = IF stringify(args'.payload) # stringify(history.present)
                          THEN HistoryState(Append(history.past, history.present),
                                            args'.payload, <<>>)
                          ELSE history]_vars
    /\ [][Dispatches("LOAD")
            => history' = HistoryState(<<>>, args'.payload, <<>>)]_vars

\* a PUSH_STATE whose payload is not the present has left the state as it
\* was, after an undo: the future is still there
C30_Witness ==
    /\ args.type = "PUSH_STATE"
    /\ args.payload # history.present
    /\ history.future # <<>>
====
